---- MODULE Spec2Model ----
(***************************************************************************)
(* Changelogger: the commit-to-changelog pipeline.                         *)
(*                                                                         *)
(* Texts (file contents, diffs, prompts, error messages, changelog         *)
(* entries) are TLA+ strings, handled character by character with Len,     *)
(* SubSeq and \o, so that prefix, substring and length properties are      *)
(* properties of the text the code produces.                               *)
(***************************************************************************)
EXTENDS Integers, Sequences, FiniteSets, TLC

(***************************************************************************)
(* Bounds of the model.                                                    *)
(***************************************************************************)
\* generation runs (executeChangelogGeneration invocations) per behaviour
MaxRuns == 2
\* commits made to the repository per behaviour
MaxCommits == 1
\* the files of a request, and of a commit's diff listing
MaxFiles == 2
\* the patterns of an ignore set
MaxPatterns == 2
\* the lines of a diff text
MaxLines == 3
\* a file's inserted and deleted lines
MaxCount == 2
\* how far around the prompt budget the prompt lengths of the requests go
PromptSlack == 4
\* the segments of a configured changelog path
MaxSegments == 2
\* how far around each length limit the API keys tried reach
KeyMargin == 3

\* the calls made on AIIntegrationService
MaxCalls == 2

\* the temporary messages shown in the status bar
MaxMessages == 2

\* the milliseconds that pass between two events
Tick == 1000

(***************************************************************************)
(* The state: the repository, the configuration, the changelog file and    *)
(* its backup, the generation runs (one per invocation of                  *)
(* executeChangelogGeneration), the OpenAI client, and the assembly of one *)
(* commit's file changes.                                                  *)
(***************************************************************************)
VARIABLES
    head,                    \* the repository's HEAD: the number of commits made
    pendingStateChange,      \* repository.state.onDidChange is due to fire
    pendingRepositoryChange, \* repository.onDidChangeRepository is due to fire
    configMode,              \* the setting changelogger.mode
    apiKeyValid,             \* a well-formed API key is configured
    autoGenerate,            \* the setting changelogger.autoGenerate
    changelog,               \* the changelog file
    directoryExists,         \* the changelog file's parent directory exists
    backup,                  \* the backup copy, changelog path + '.backup'
    pc,                      \* per run: where it is suspended
    mode,                    \* per run: the local `mode`
    commitInfo,              \* per run: gitDataResult.commitInfo
    changelogEntry,          \* per run: the rendered entry
    readResult,              \* per run: createBackup's readResult.content
    success,                 \* per run: changelogResult.success, once known
    changelogError,          \* per run: changelogResult.errorMessage
    changelogAtCall,         \* per run: the changelog file as generateChangelogEntry found it
    switchToBase,            \* per run: the answer to the warning about the AI configuration
    initialized,             \* OpenAIService: openai and config are set
    initSuccess,             \* what the latest OpenAIService.initialize returned
    request,                 \* the request of the latest generateChangeSummary call
    apiOutcome,              \* what the API did with the request that call sent
    response,                \* the ChangeSummaryResponse that call returned
    dialog,                  \* the error dialog that call brought up
    networkRequests,         \* the requests that call sent to the API
    includeAIData,           \* extractFileChanges: its parameter
    diffFiles,               \* extractFileChanges: diffSummary.files
    fileChanges,             \* extractFileChanges: the FileChange list built so far
    fileIndex,               \* extractFileChanges: the files of the listing the loop is past
    candidatePath,           \* isFileIgnored: its parameter filePath
    patternSet,              \* isFileIgnored: its parameter patterns
    ignoreResult,            \* isFileIgnored: what the call returned, once it has
    diffInput,               \* filterDiffToChangedLines: the text it is given
    filterPasses,            \* filterDiffToChangedLines: how often the text went through it
    filteredDiff,            \* filterDiffToChangedLines: what the latest pass returned
    configuredPath,          \* the setting changelogger.changelogPath
    configuredDirExists,     \* the directory of the configured path exists
    pathValidation,          \* what validateChangelogPath returned for it, once it has
    fullPath,                \* writeToChangelog: the path the entry is written to
    apiKey,                  \* the API key a validator is given
    keyValidation,           \* what ValidationUtils.validateOpenAIApiKey returned for it
    testValidation,          \* what the unit tests' validateOpenAIApiKey returned for it
    selection,               \* the action the user picked in the error dialog, once picked
    command,                 \* the command that selection triggered: where it is suspended
    isInitialized,           \* AIIntegrationService.isInitialized
    aiCall,                  \* per call on AIIntegrationService: its method and the await it is at
    statusBarItem,           \* StatusBarService.statusBarItem: its text and tooltip
    timeouts,                \* the pending setTimeout callbacks of showTemporaryMessage
    shown                    \* the showTemporaryMessage calls made

(***************************************************************************)
(* String helpers: the JavaScript string methods the code uses.            *)
(***************************************************************************)
Ch(s, i) == SubSeq(s, i, i)

startsWith(s, k) == Len(k) <= Len(s) /\ SubSeq(s, 1, Len(k)) = k

endsWith(s, k) == Len(k) <= Len(s) /\ SubSeq(s, Len(s) - Len(k) + 1, Len(s)) = k

includes(s, k) == \E i \in 1..(Len(s) - Len(k) + 1) : SubSeq(s, i, i + Len(k) - 1) = k

\* number of (possibly overlapping) occurrences of k in s
Occurrences(s, k) == Cardinality({i \in 1..(Len(s) - Len(k) + 1) : SubSeq(s, i, i + Len(k) - 1) = k})

\* String.prototype.trim() === '' : only white space
IsBlank(s) == \A i \in 1..Len(s) : Ch(s, i) \in {" ", "\n", "\t"}

RECURSIVE join(_, _)
join(lines, sep) ==
    IF Len(lines) = 0 THEN ""
    ELSE IF Len(lines) = 1 THEN lines[1]
    ELSE lines[1] \o sep \o join(Tail(lines), sep)

\* s.indexOf(k, from), as a position (0: not found)
indexOfFrom(s, k, from) ==
    LET found == {i \in from..(Len(s) - Len(k) + 1) : SubSeq(s, i, i + Len(k) - 1) = k}
    IN  IF found = {} THEN 0 ELSE CHOOSE i \in found : \A m \in found : i <= m

\* s.split('\n')
RECURSIVE SplitFrom(_, _)
SplitFrom(s, start) ==
    LET i == indexOfFrom(s, "\n", start)
    IN  IF i = 0 THEN <<SubSeq(s, start, Len(s))>>
        ELSE <<SubSeq(s, start, i - 1)>> \o SplitFrom(s, i + 1)

splitLines(s) == SplitFrom(s, 1)

\* a text of n characters
RECURSIVE Pad(_)
Pad(n) ==
    IF n <= 0 THEN ""
    ELSE LET h == Pad(n \div 2) IN h \o h \o (IF n % 2 = 1 THEN "x" ELSE "")

(***************************************************************************)
(* Optional values (TypeScript's `x?: T`): <<>> is undefined, <<v>> is v.  *)
(***************************************************************************)
Undefined == <<>>
Some(v) == <<v>>
IsDefined(o) == Len(o) = 1

(***************************************************************************)
(* The git repository the extension reads (simple-git): commit h is the    *)
(* h-th commit of the history; commit 1 is the root commit.                *)
(***************************************************************************)
\* git.log({maxCount: 1}).latest of a repository whose HEAD is commit h
GitLog(h) ==
    [hash |-> ToString(h) \o "f00dfacecafebeef0123456789abcdef0123456",
     message |-> CASE h % 3 = 2 -> "Add login"
                   [] h % 3 = 0 -> "Rotate logs"
                   [] OTHER -> "Initial commit",
     author_name |-> "Dev",
     author_email |-> "dev@example.com",
     date |-> "01/0" \o ToString(h) \o "/2025, 10:00:00 AM UTC"]

\* one entry of DiffResult.files: text files carry insertions/deletions,
\* binary files do not
TextFile(f, ins, del) == [file |-> f, text |-> TRUE, insertions |-> ins, deletions |-> del]
BinaryFile(f) == [file |-> f, text |-> FALSE, insertions |-> 0, deletions |-> 0]

\* git.diffSummary([h~1, h]).files
GitDiffSummaryFiles(h) ==
    CASE h % 3 = 2 -> <<TextFile("login.ts", 2, 0), TextFile("app.ts", 1, 1), TextFile("temp.js", 0, 3)>>
      [] h % 3 = 0 -> <<TextFile("debug.log", 1, 0), BinaryFile("logo.png")>>
      [] OTHER -> <<TextFile("README.md", 1, 0)>>

\* git.diffSummary([h~1, h]) rejects when h~1 is no revision (the root commit)
GitDiffSummaryOk(h) == h > 1

\* git.diff([h~1, h, '--', file])
GitDiff(h, file) ==
    CASE file = "login.ts" ->
           "diff --git a/login.ts b/login.ts\nnew file mode 100644\nindex 0000000..1111111\n--- /dev/null\n+++ b/login.ts\n@@ -0,0 +1,2 @@\n+export function login() {}\n+// end"
      [] file = "app.ts" ->
           "diff --git a/app.ts b/app.ts\nindex 2222222..3333333 100644\n--- a/app.ts\n+++ b/app.ts\n@@ -1,2 +1,2 @@\n import x\n-old()\n+login()\n\\ No newline at end of file"
      [] file = "debug.log" ->
           "diff --git a/debug.log b/debug.log\n--- /dev/null\n+++ b/debug.log\n@@ -0,0 +1 @@\n+boot"
      [] OTHER -> ""

(***************************************************************************)
(* Change Classifier (GitDataExtractor.extractFileChanges, the part that   *)
(* decides changeType and changeSymbol of one file).                       *)
(***************************************************************************)
\* a faulty classification that looks at the insertions alone
classifyChangeByInsertions(file) ==
    IF file.text /\ file.insertions > 0
    THEN [changeType |-> "added", changeSymbol |-> "+"]
    ELSE IF file.text /\ file.deletions > 0
    THEN [changeType |-> "deleted", changeSymbol |-> "-"]
    ELSE [changeType |-> "modified", changeSymbol |-> "*"]

classifyChange(file) ==
    IF file.text
    THEN IF file.insertions > 0 /\ file.deletions = 0
         THEN [changeType |-> "added", changeSymbol |-> "+"]
         ELSE IF file.insertions = 0 /\ file.deletions > 0
         THEN [changeType |-> "deleted", changeSymbol |-> "-"]
         ELSE [changeType |-> "modified", changeSymbol |-> "*"]
    ELSE [changeType |-> "modified", changeSymbol |-> "*"]

(***************************************************************************)
(* Ignore-Pattern Matcher (GitDataExtractor.isFileIgnored, matchesPattern).*)
(* matchesPattern rewrites the pattern into the source text of a regular   *)
(* expression and tests the path against it; RegExpTest is the matcher for *)
(* the expressions that rewriting produces.                                *)
(***************************************************************************)
\* s.replace(/c/g, r) for a one-character c
RECURSIVE replaceAll(_, _, _)
replaceAll(s, c, r) ==
    IF Len(s) = 0 THEN ""
    ELSE (IF Ch(s, 1) = c THEN r ELSE Ch(s, 1)) \o replaceAll(SubSeq(s, 2, Len(s)), c, r)

\* new RegExp(re) throws a SyntaxError: an unterminated class, parentheses
\* that do not pair, or a quantifier with nothing to repeat
RECURSIVE ParenDepthOk(_, _, _)
ParenDepthOk(re, i, depth) ==
    IF i > Len(re) THEN depth = 0
    ELSE CASE Ch(re, i) = "\\" -> ParenDepthOk(re, i + 2, depth)
           [] Ch(re, i) = "(" -> ParenDepthOk(re, i + 1, depth + 1)
           [] Ch(re, i) = ")" -> depth > 0 /\ ParenDepthOk(re, i + 1, depth - 1)
           [] OTHER -> ParenDepthOk(re, i + 1, depth)

NothingToRepeat(re) ==
    \E i \in 1..Len(re) :
        /\ Ch(re, i) \in {"*", "?"}
        /\ \/ i = 1
           \/ /\ Ch(re, i - 1) \in {"^", "(", "|"}
              /\ ~(i > 2 /\ Ch(re, i - 2) = "\\")

RegExpCompiles(re) ==
    /\ ~includes(re, "[")
    /\ ParenDepthOk(re, 1, 0)
    /\ ~NothingToRepeat(re)

\* does re, read from position i, match s from position j on
RECURSIVE MatchAt(_, _, _, _)
MatchAt(re, i, s, j) ==
    IF i > Len(re) THEN TRUE
    ELSE
    LET c == Ch(re, i) IN
    CASE c = "^" -> j = 1 /\ MatchAt(re, i + 1, s, j)
      [] c = "$" -> j = Len(s) + 1 /\ MatchAt(re, i + 1, s, j)
      [] c = "(" /\ SubSeq(re, i, i + 5) = "(/.*)?" ->
            \/ MatchAt(re, i + 6, s, j)
            \/ /\ j <= Len(s)
               /\ Ch(s, j) = "/"
               /\ \E k \in (j + 1)..(Len(s) + 1) : MatchAt(re, i + 6, s, k)
      [] c = "(" /\ SubSeq(re, i, i + 5) # "(/.*)?" /\ SubSeq(re, i, i + 4) = "(^|/)" ->
            LET optional == i + 5 <= Len(re) /\ Ch(re, i + 5) = "?"
                next == IF optional THEN i + 6 ELSE i + 5
            IN  \/ j = 1 /\ MatchAt(re, next, s, j)
                \/ j <= Len(s) /\ Ch(s, j) = "/" /\ MatchAt(re, next, s, j + 1)
                \/ optional /\ MatchAt(re, next, s, j)
      [] OTHER ->
            LET esc == c = "\\"
                alen == IF esc THEN 2 ELSE 1
                lit == IF esc THEN Ch(re, i + 1) ELSE c
                any == ~esc /\ c = "."
                AtomOk(k) == k <= Len(s) /\ (any \/ Ch(s, k) = lit)
                q == IF i + alen <= Len(re) THEN Ch(re, i + alen) ELSE ""
                \* a '?' after a quantifier only makes it lazy
                lazy == q \in {"*", "?"} /\ i + alen + 1 <= Len(re) /\ Ch(re, i + alen + 1) = "?"
                rest == i + alen + (IF q \in {"*", "?"} THEN 1 ELSE 0) + (IF lazy THEN 1 ELSE 0)
            IN  IF q = "*"
                THEN \E n \in 0..(Len(s) - j + 1) :
                        /\ \A k \in j..(j + n - 1) : AtomOk(k)
                        /\ MatchAt(re, rest, s, j + n)
                ELSE IF q = "?"
                THEN MatchAt(re, rest, s, j) \/ (AtomOk(j) /\ MatchAt(re, rest, s, j + 1))
                ELSE AtomOk(j) /\ MatchAt(re, rest, s, j + 1)

\* new RegExp(re).test(s), for a re that compiles
RegExpTest(re, s) == \E j \in 1..(Len(s) + 1) : MatchAt(re, 1, s, j)

\* a faulty rewriting that lets a directory pattern match every path that
\* begins like the directory
patternToRegexDirectoryPrefix(pattern) ==
    LET general == replaceAll(replaceAll(replaceAll(replaceAll(pattern, ".", "\\."), "*", ".*"), "?", "."), "/", "\\/")
        directory == replaceAll(replaceAll(SubSeq(pattern, 1, Len(pattern) - 3), ".", "\\."), "*", ".*") \o ".*"
        body == IF endsWith(pattern, "/**") THEN directory ELSE general
        anchored == IF startsWith(pattern, "/")
                    THEN "^" \o SubSeq(body, 2, Len(body))
                    ELSE "(^|/)" \o body
    IN  anchored \o "$"

\* the source text of the regular expression matchesPattern builds
patternToRegex(pattern) ==
    LET general == replaceAll(replaceAll(replaceAll(replaceAll(pattern, ".", "\\."), "*", ".*"), "?", "."), "/", "\\/")
        directory == replaceAll(replaceAll(SubSeq(pattern, 1, Len(pattern) - 3), ".", "\\."), "*", ".*") \o "(/.*)?"
        body == IF endsWith(pattern, "/**") THEN directory ELSE general
        anchored == IF startsWith(pattern, "/")
                    THEN "^" \o SubSeq(body, 2, Len(body))
                    ELSE "(^|/)" \o body
    IN  anchored \o "$"

matchesPattern(filePath, pattern) ==
    LET re == patternToRegex(pattern)
    IN  IF RegExpCompiles(re) THEN RegExpTest(re, filePath) ELSE FALSE

\* a faulty loop that lets the first pattern decide
isFileIgnoredFirstPatternDecides(filePath, patterns) ==
    Len(patterns) > 0 /\ matchesPattern(filePath, patterns[1])

\* a faulty loop that gives up on the whole set at a pattern that does not
\* compile
isFileIgnoredGivingUp(filePath, patterns) ==
    /\ \A n \in 1..Len(patterns) : RegExpCompiles(patternToRegex(patterns[n]))
    /\ \E n \in 1..Len(patterns) : matchesPattern(filePath, patterns[n])

\* the loop over the patterns, returning at the first that matches
RECURSIVE isFileIgnored(_, _)
isFileIgnored(filePath, patterns) ==
    IF Len(patterns) = 0 THEN FALSE
    ELSE IF matchesPattern(filePath, patterns[1]) THEN TRUE
    ELSE isFileIgnored(filePath, Tail(patterns))

getDefaultIgnorePatterns ==
    <<"*.log", "*.tmp", "*.temp", "node_modules/**", ".git/**", "dist/**", "build/**",
      "*.min.js", "*.min.css", "package-lock.json", "yarn.lock">>

(***************************************************************************)
(* Diff Extractor (GitDataExtractor.filterDiffToChangedLines,              *)
(* extractFileDiff).                                                       *)
(***************************************************************************)
IsFileHeader(line) ==
    \/ startsWith(line, "diff --git")
    \/ startsWith(line, "index ")
    \/ startsWith(line, "+++")
    \/ startsWith(line, "---")

\* a faulty loop that does not keep the hunk headers
RECURSIVE FilterLinesWithoutHunkHeaders(_, _)
FilterLinesWithoutHunkHeaders(lines, inHunk) ==
    IF Len(lines) = 0 THEN <<>>
    ELSE LET line == lines[1] IN
         IF IsFileHeader(line) THEN <<line>> \o FilterLinesWithoutHunkHeaders(Tail(lines), inHunk)
         ELSE IF startsWith(line, "@@") THEN FilterLinesWithoutHunkHeaders(Tail(lines), TRUE)
         ELSE IF inHunk /\ (startsWith(line, "+") \/ startsWith(line, "-") \/ startsWith(line, " "))
         THEN <<line>> \o FilterLinesWithoutHunkHeaders(Tail(lines), inHunk)
         ELSE FilterLinesWithoutHunkHeaders(Tail(lines), inHunk)

\* the loop over the lines; inHunk is the loop's flag
RECURSIVE FilterLines(_, _)
FilterLines(lines, inHunk) ==
    IF Len(lines) = 0 THEN <<>>
    ELSE LET line == lines[1] IN
         IF IsFileHeader(line) THEN <<line>> \o FilterLines(Tail(lines), inHunk)
         ELSE IF startsWith(line, "@@") THEN <<line>> \o FilterLines(Tail(lines), TRUE)
         ELSE IF inHunk /\ (startsWith(line, "+") \/ startsWith(line, "-") \/ startsWith(line, " "))
         THEN <<line>> \o FilterLines(Tail(lines), inHunk)
         ELSE FilterLines(Tail(lines), inHunk)

filterDiffToChangedLines(diff) == join(FilterLines(splitLines(diff), FALSE), "\n")

\* what git.diff did: it returned a text, or it threw
DiffReturned(text) == [threw |-> FALSE, diff |-> text]
DiffThrew == [threw |-> TRUE, diff |-> ""]

\* the result {success, content?} for what git.diff did
extractFileDiff(gitDiff) ==
    IF gitDiff.threw \/ IsBlank(gitDiff.diff)
    THEN [success |-> FALSE, content |-> Undefined]
    ELSE [success |-> TRUE, content |-> Some(filterDiffToChangedLines(gitDiff.diff))]

(***************************************************************************)
(* Commit Data Assembler (GitDataExtractor.extractFileChanges,             *)
(* extractLatestCommit).                                                   *)
(***************************************************************************)
\* per-file diff size ceiling, in characters
MAX_DIFF_SIZE == 50000

\* a faulty assembly that keeps a diff whatever its size
buildFileChangeKeepingOversized(file, gitDiff, withAIData, ignorePatterns) ==
    LET kind == classifyChange(file)
        includeInAI == /\ withAIData
                       /\ kind.changeType # "deleted"
                       /\ ~isFileIgnored(file.file, ignorePatterns)
        diffResult == extractFileDiff(gitDiff)
        kept == includeInAI /\ diffResult.success /\ IsDefined(diffResult.content)
                   /\ diffResult.content[1] # ""
        diffContent == IF kept THEN diffResult.content ELSE Undefined
        fileSize == IF kept THEN Some(Len(diffResult.content[1])) ELSE Undefined
    IN  [filePath |-> file.file,
         changeType |-> kind.changeType,
         changeSymbol |-> kind.changeSymbol,
         includeInAI |-> includeInAI /\ IsDefined(diffContent),
         diffContent |-> diffContent,
         fileSize |-> fileSize]

\* the FileChange built for one file of the diff listing
buildFileChange(file, gitDiff, withAIData, ignorePatterns) ==
    LET kind == classifyChange(file)
        includeInAI == /\ withAIData
                       /\ kind.changeType # "deleted"
                       /\ ~isFileIgnored(file.file, ignorePatterns)
        diffResult == extractFileDiff(gitDiff)
        captured == includeInAI /\ diffResult.success /\ IsDefined(diffResult.content)
                       /\ diffResult.content[1] # ""
        kept == captured /\ Len(diffResult.content[1]) <= MAX_DIFF_SIZE
        diffContent == IF kept THEN diffResult.content ELSE Undefined
        fileSize == IF kept THEN Some(Len(diffResult.content[1])) ELSE Undefined
    IN  [filePath |-> file.file,
         changeType |-> kind.changeType,
         changeSymbol |-> kind.changeSymbol,
         includeInAI |-> includeInAI /\ IsDefined(diffContent),
         diffContent |-> diffContent,
         fileSize |-> fileSize]

\* a faulty loop that lists a file only when it has a diff
pushFileChangeOnlyWithDiff(changes, change) ==
    IF IsDefined(change.diffContent) THEN Append(changes, change) ELSE changes

\* fileChanges.push(fileChange), the end of every pass of the loop
pushFileChange(changes, change) == Append(changes, change)

\* the loop over the files of the listing
RECURSIVE FileChangesOf(_, _, _, _)
FileChangesOf(files, h, withAIData, ignorePatterns) ==
    IF Len(files) = 0 THEN <<>>
    ELSE LET file == files[Len(files)]
         IN  pushFileChange(FileChangesOf(SubSeq(files, 1, Len(files) - 1), h, withAIData, ignorePatterns),
                            buildFileChange(file, DiffReturned(GitDiff(h, file.file)), withAIData,
                                            ignorePatterns))

\* the patterns loaded for a repository without a .clogignore file
loadClogIgnorePatterns == getDefaultIgnorePatterns

extractFileChanges(h, withAIData) ==
    FileChangesOf(GitDiffSummaryFiles(h), h, withAIData,
                  IF withAIData THEN loadClogIgnorePatterns ELSE <<>>)

NoCommitInfo == [hash |-> "", message |-> "", author |-> "", email |-> "", date |-> "", fileChanges |-> <<>>]

\* the GitDataResult for a repository whose HEAD is commit h (0: no commits)
extractLatestCommit(h, withAIData) ==
    IF h = 0
    THEN [success |-> FALSE, commitInfo |-> NoCommitInfo]
    ELSE IF ~GitDiffSummaryOk(h)
    THEN [success |-> FALSE, commitInfo |-> NoCommitInfo]
    ELSE [success |-> TRUE,
          commitInfo |-> [hash |-> GitLog(h).hash,
                          message |-> GitLog(h).message,
                          author |-> GitLog(h).author_name,
                          email |-> GitLog(h).author_email,
                          date |-> GitLog(h).date,
                          fileChanges |-> extractFileChanges(h, withAIData)]]

(***************************************************************************)
(* Changelog Writer: rendering (ChangelogGenerator.formatChangelogEntry).  *)
(* The backquotes around the short hash are written as apostrophes: a      *)
(* TLA+ string cannot hold a backquote.                                    *)
(***************************************************************************)
CHANGELOG_SEPARATOR == "\n---\n"

IsAdded(f) == f.changeType = "added"
IsModified(f) == f.changeType = "modified"
IsDeleted(f) == f.changeType = "deleted"
IsIncludedInAI(f) == f.includeInAI

RECURSIVE FileLines(_)
FileLines(files) ==
    IF Len(files) = 0 THEN <<>>
    ELSE <<"- " \o files[1].changeSymbol \o " " \o files[1].filePath>> \o FileLines(Tail(files))

\* one subsection of the file listing, omitted when no file has the kind
Subsection(title, files) ==
    IF Len(files) > 0 THEN <<title>> \o FileLines(files) \o <<"">> ELSE <<>>

AI_SUMMARY_PENDING == "*AI-powered summary will be generated here in a future update.*"
AI_SUMMARY_NO_FILES == "*No files were processed for AI analysis (all files filtered or too large).*"

\* the lines of the AI-summary section
aiSummarySection(commit, entryMode) ==
    IF entryMode = "ai"
    THEN LET aiProcessedFiles == SelectSeq(commit.fileChanges, IsIncludedInAI)
         IN  <<"### AI Summary:">>
             \o (IF Len(aiProcessedFiles) > 0
                 THEN <<AI_SUMMARY_PENDING,
                        "*Files processed for AI analysis: " \o ToString(Len(aiProcessedFiles)) \o "*">>
                 ELSE <<AI_SUMMARY_NO_FILES>>)
             \o <<"">>
    ELSE <<>>

\* a faulty footer that counts every file that was not added as modified
statisticsLineDeletedAsModified(changes) ==
    "- Added: " \o ToString(Len(SelectSeq(changes, IsAdded)))
    \o ", Modified: " \o ToString(Len(changes) - Len(SelectSeq(changes, IsAdded)))
    \o ", Deleted: " \o ToString(Len(SelectSeq(changes, IsDeleted)))

statisticsLine(changes) ==
    "- Added: " \o ToString(Len(SelectSeq(changes, IsAdded)))
    \o ", Modified: " \o ToString(Len(SelectSeq(changes, IsModified)))
    \o ", Deleted: " \o ToString(Len(SelectSeq(changes, IsDeleted)))

formatChangelogEntry(commit, entryMode) ==
    LET changes == commit.fileChanges
        header == <<"## Commit: " \o commit.message,
                    "**Author:** " \o commit.author \o " <" \o commit.email \o ">",
                    "**Date:** " \o commit.date,
                    "**Hash:** '" \o SubSeq(commit.hash, 1, 8) \o "'",
                    "",
                    "### File Changes:">>
        listing == IF Len(changes) = 0
                   THEN <<"- No file changes detected">>
                   ELSE Subsection("**Added:**", SelectSeq(changes, IsAdded))
                        \o Subsection("**Modified:**", SelectSeq(changes, IsModified))
                        \o Subsection("**Deleted:**", SelectSeq(changes, IsDeleted))
        statistics == <<"### Statistics:",
                        "- Total files changed: " \o ToString(Len(changes)),
                        statisticsLine(changes)>>
                      \o (IF entryMode = "ai"
                          THEN <<"- Files processed for AI: "
                                 \o ToString(Len(SelectSeq(changes, IsIncludedInAI)))>>
                          ELSE <<>>)
    IN  join(header \o listing \o aiSummarySection(commit, entryMode) \o statistics, "\n")

(***************************************************************************)
(* Files (FileUtils).  A file is [exists, content, writable]; the          *)
(* directory of a file these act on exists and is writable.  A result is   *)
(* a FileOperationResult: success, the errorMessage of a failure (the        *)
(* resolved path that follows it in the code's message left out), and the  *)
(* file as the operation leaves it.                                        *)
(***************************************************************************)
NoFile == [exists |-> FALSE, content |-> "", writable |-> TRUE]

Written(file) == [success |-> TRUE, errorMessage |-> Undefined, file |-> file]

Refused(file, message) == [success |-> FALSE, errorMessage |-> Some(message), file |-> file]

NO_WRITE_ACCESS == "No write access to file"

fileExists(file) == file.exists

\* fs.writeFileSync after the permission checks of FileUtils.writeFile
writeFile(file, content) ==
    IF file.exists /\ ~file.writable
    THEN Refused(file, NO_WRITE_ACCESS)
    ELSE Written([exists |-> TRUE, content |-> content, writable |-> TRUE])

\* a faulty append that replaces the content instead of extending it
appendFileTruncating(file, content) ==
    IF ~file.exists \/ file.writable
    THEN Written([exists |-> TRUE, content |-> content, writable |-> TRUE])
    ELSE Refused(file, NO_WRITE_ACCESS)

\* a faulty append that finds out about the missing permission only after
\* it has written
appendFileCheckingLate(file, content) ==
    IF ~file.exists
    THEN writeFile(file, content)
    ELSE IF ~file.writable
    THEN Refused([file EXCEPT !.content = file.content \o content], NO_WRITE_ACCESS)
    ELSE Written([file EXCEPT !.content = file.content \o content])

\* fs.appendFileSync after the checks of FileUtils.appendFile
appendFile(file, content) ==
    IF ~file.exists
    THEN writeFile(file, content)
    ELSE IF ~file.writable
    THEN Refused(file, NO_WRITE_ACCESS)
    ELSE Written([file EXCEPT !.content = file.content \o content])

readFile(file) ==
    IF ~file.exists
    THEN [success |-> FALSE, content |-> Undefined]
    ELSE [success |-> TRUE, content |-> Some(file.content)]

(***************************************************************************)
(* Changelog Writer: persistence (ChangelogGenerator.writeToChangelog).    *)
(***************************************************************************)
entryWithSeparator(entry) == "\n" \o entry \o "\n" \o CHANGELOG_SEPARATOR \o "\n"

changelogHeader == "# Changelog\n\nGenerated by Changelogger VS Code Extension\n" \o CHANGELOG_SEPARATOR \o "\n"

initialContent(entry) == changelogHeader \o entry \o "\n" \o CHANGELOG_SEPARATOR \o "\n"

\* a faulty write that acts on an exists-check taken before the file was
\* created by another call: it creates the file with the header again
persistEntryStaleCheck(file, entry) ==
    writeFile(file, initialContent(entry))

\* the exists-check of line 253 and the write it selects, one synchronous step
persistEntry(file, entry) ==
    IF fileExists(file)
    THEN appendFile(file, entryWithSeparator(entry))
    ELSE writeFile(file, initialContent(entry))

(***************************************************************************)
(* The pipeline as a state machine: the repository, the configuration, the *)
(* changelog file and its backup, and the generation runs (one per         *)
(* invocation of executeChangelogGeneration).  A run's position pc is the  *)
(* await it is suspended at; everything between two awaits is one step.    *)
(***************************************************************************)
pipelineVars == <<head, pendingStateChange, pendingRepositoryChange, configMode, apiKeyValid,
                  autoGenerate, changelog, directoryExists, backup, pc, mode, commitInfo, changelogEntry,
                  readResult, success, changelogError, changelogAtCall, switchToBase>>

serviceVars == <<initialized, initSuccess, request, apiOutcome, response, dialog, networkRequests>>

assemblerVars == <<includeAIData, diffFiles, fileChanges, fileIndex>>

matcherVars == <<candidatePath, patternSet, ignoreResult>>

filterVars == <<diffInput, filterPasses, filteredDiff>>

pathVars == <<configuredPath, configuredDirExists, pathValidation, fullPath>>

keyVars == <<apiKey, keyValidation, testValidation>>

dialogVars == <<selection, command>>

integrationVars == <<isInitialized, aiCall>>

statusVars == <<statusBarItem, timeouts, shown>>

\* before any generateChangeSummary call
NoRequest == [commitMessage |-> "", fileChanges |-> <<>>, context |-> Undefined]
NoOutcome == [kind |-> "none"]
NoResponse == [success |-> FALSE, summary |-> Undefined, errorMessage |-> Undefined, context |-> Undefined]

\* the OpenAIService singleton as constructed, no call made yet
ServiceConstructed ==
    /\ initialized = FALSE
    /\ initSuccess = Undefined
    /\ request = NoRequest
    /\ apiOutcome = NoOutcome
    /\ response = NoResponse
    /\ dialog = "none"
    /\ networkRequests = 0

\* no extractFileChanges under way
AssemblerIdle ==
    /\ includeAIData = FALSE
    /\ diffFiles = <<>>
    /\ fileChanges = <<>>
    /\ fileIndex = 0

\* no isFileIgnored call under way
MatcherIdle ==
    /\ candidatePath = ""
    /\ patternSet = <<>>
    /\ ignoreResult = "none"

\* no filterDiffToChangedLines call under way
FilterIdle ==
    /\ diffInput = ""
    /\ filterPasses = 0
    /\ filteredDiff = ""

\* no path has been validated
NotValidated == [isValid |-> FALSE, errorMessage |-> Undefined]

\* the default setting, not yet used
PathIdle ==
    /\ configuredPath = "CHANGELOG.md"
    /\ configuredDirExists = TRUE
    /\ pathValidation = NotValidated
    /\ fullPath = ""

\* no key has been validated
KeyIdle ==
    /\ apiKey = ""
    /\ keyValidation = NotValidated
    /\ testValidation = NotValidated

\* no error dialog has been answered
DialogIdle ==
    /\ selection = "none"
    /\ command = "none"

Runs == 1..MaxRuns

Calls == 1..MaxCalls

\* config.mode.toUpperCase()
modeUpperCase(m) == IF m = "ai" THEN "AI" ELSE "BASE"

\* StatusBarService.updateStatusBar: the item for the configured mode
updateStatusBar(m) ==
    [text |-> (IF modeUpperCase(m) = "AI" THEN "$(robot)" ELSE "$(file-text)")
              \o " Changelogger: " \o modeUpperCase(m),
     tooltip |-> "Changelogger: " \o modeUpperCase(m) \o " Mode\nClick for quick actions"]

\* the status bar as StatusBarService.initialize leaves it in AI mode
StatusIdle ==
    /\ statusBarItem = updateStatusBar("ai")
    /\ timeouts = {}
    /\ shown = 0

NoCall == [method |-> "none", at |-> "idle"]

\* the AIIntegrationService singleton as constructed, no call made yet
IntegrationIdle ==
    /\ isInitialized = FALSE
    /\ aiCall = [c \in Calls |-> NoCall]

(* OpenAIService.initialize(apiKey) on a client that is set up or not: a   *)
(* key that is empty or ill-formed returns false and leaves the client as  *)
(* it is (lines 93-102); otherwise the client is set up, and is cleared    *)
(* again when the connection test fails or an error is thrown.             *)
initialize(client, keyWellFormed, connectionOk) ==
    IF ~keyWellFormed
    THEN [initialized |-> client, returned |-> FALSE]
    ELSE [initialized |-> connectionOk, returned |-> connectionOk]

\* the action of the warning and of the error dialogs
SWITCH_TO_BASE_MODE == "Switch to Base Mode"

\* the setting changelogger.changelogPath, relative to the workspace root
changelogPath == "docs/CHANGELOG.md"

\* a ValidationResult; a failure's message is given without the path that
\* follows it in the code's message
Valid == [isValid |-> TRUE, errorMessage |-> Undefined]

Invalid(message) == [isValid |-> FALSE, errorMessage |-> Some(message)]

\* ValidationUtils.validateChangelogPath for a path whose parent directory
\* exists or not (and is writable when it exists)
validateChangelogPath(filePath, dirExists) ==
    IF IsBlank(filePath)
    THEN Invalid("Changelog file path is empty or undefined")
    ELSE IF \E i \in 1..Len(filePath) : Ch(filePath, i) \in {"<", ">", ":", "\"", "|", "?", "*"}
    THEN Invalid("Changelog path contains invalid characters")
    ELSE IF ~dirExists
    THEN Invalid("Directory for changelog file does not exist")
    ELSE Valid

\* ChangelogGenerator.validateOptions in a valid workspace
validateOptions(entryMode, filePath, dirExists) ==
    IF entryMode \notin {"base", "ai"}
    THEN Invalid("Invalid mode specified")
    ELSE validateChangelogPath(filePath, dirExists)

\* text a user may have put in the changelog file before the extension runs
UserText == "My notes\n"

\* the changelog before the extension runs: absent, empty, or the user's
InitialChangelogs ==
    {NoFile,
     [exists |-> TRUE, content |-> "", writable |-> TRUE],
     [exists |-> TRUE, content |-> UserText, writable |-> TRUE],
     [exists |-> TRUE, content |-> UserText, writable |-> FALSE]}

\* a backup copy left by an earlier session and since write-protected
StaleBackup == [exists |-> TRUE, content |-> "Old notes\n", writable |-> FALSE]

\* the backup before the extension runs: none, or a stale one beside a
\* changelog that can have had one made
InitialBackups(file) ==
    IF file.exists /\ file.writable /\ file.content # "" THEN {NoFile, StaleBackup} ELSE {NoFile}

InitPipeline ==
    /\ head = 1
    /\ pendingStateChange = FALSE
    /\ pendingRepositoryChange = FALSE
    /\ configMode \in {"base", "ai"}
    /\ apiKeyValid \in BOOLEAN
    /\ autoGenerate \in BOOLEAN
    /\ changelog \in InitialChangelogs
    /\ directoryExists \in {d \in BOOLEAN : changelog.exists => d}
    /\ backup \in InitialBackups(changelog)
    /\ pc = [p \in Runs |-> "idle"]
    /\ mode = [p \in Runs |-> "base"]
    /\ commitInfo = [p \in Runs |-> NoCommitInfo]
    /\ changelogEntry = [p \in Runs |-> ""]
    /\ readResult = [p \in Runs |-> Undefined]
    /\ success = [p \in Runs |-> "unknown"]
    /\ changelogError = [p \in Runs |-> Undefined]
    /\ changelogAtCall = [p \in Runs |-> NoFile]
    /\ switchToBase = [p \in Runs |-> "none"]

\* the run an invocation gets: the first one not yet used
IsNextRun(p) == pc[p] = "idle" /\ \A q \in Runs : q < p => pc[q] # "idle"

(* executeChangelogGeneration from its start to the first point where it   *)
(* depends on anything another run or the user can change: the repository  *)
(* is detected, the mode is read and, in AI mode, the configuration is     *)
(* validated; an invalid one brings up the warning dialog.                 *)
executeChangelogGeneration(p) ==
    /\ mode' = [mode EXCEPT ![p] = configMode]
    /\ pc' = [pc EXCEPT ![p] = IF configMode = "ai" /\ ~apiKeyValid THEN "dialog" ELSE "extract"]

(* A commit is made in the repository; the git extension then fires both   *)
(* events the extension listens to.                                        *)
Commit ==
    /\ head < 1 + MaxCommits
    /\ head' = head + 1
    /\ pendingStateChange' = TRUE
    /\ pendingRepositoryChange' = TRUE
    /\ UNCHANGED <<configMode, apiKeyValid, autoGenerate, changelog, backup, pc, mode,
                   commitInfo, changelogEntry, readResult, success>>
    /\ UNCHANGED <<directoryExists, changelogError, changelogAtCall, switchToBase, serviceVars,
                   assemblerVars, matcherVars, filterVars, pathVars, keyVars, dialogVars,
                   integrationVars, statusVars>>

\* GitHookIntegration.handlePotentialCommit and the callback it invokes
handlePotentialCommit ==
    IF autoGenerate
    THEN \E p \in Runs : IsNextRun(p) /\ executeChangelogGeneration(p)
    ELSE UNCHANGED <<pc, mode>>

\* handleRepositoryStateChange: the working tree and the index are clean
\* after a commit
OnDidChangeState ==
    /\ pendingStateChange
    /\ pendingStateChange' = FALSE
    /\ handlePotentialCommit
    /\ UNCHANGED <<head, pendingRepositoryChange, configMode, apiKeyValid, autoGenerate,
                   changelog, backup, commitInfo, changelogEntry, readResult, success>>
    /\ UNCHANGED <<directoryExists, changelogError, changelogAtCall, switchToBase, serviceVars,
                   assemblerVars, matcherVars, filterVars, pathVars, keyVars, dialogVars,
                   integrationVars, statusVars>>

\* handleRepositoryChange
OnDidChangeRepository ==
    /\ pendingRepositoryChange
    /\ pendingRepositoryChange' = FALSE
    /\ handlePotentialCommit
    /\ UNCHANGED <<head, pendingStateChange, configMode, apiKeyValid, autoGenerate, changelog,
                   backup, commitInfo, changelogEntry, readResult, success>>
    /\ UNCHANGED <<directoryExists, changelogError, changelogAtCall, switchToBase, serviceVars,
                   assemblerVars, matcherVars, filterVars, pathVars, keyVars, dialogVars,
                   integrationVars, statusVars>>

\* the command changelogger.generate
GenerateCommand ==
    /\ \E p \in Runs : IsNextRun(p) /\ executeChangelogGeneration(p)
    /\ UNCHANGED <<head, pendingStateChange, pendingRepositoryChange, configMode, apiKeyValid,
                   autoGenerate, changelog, backup, commitInfo, changelogEntry, readResult,
                   success>>
    /\ UNCHANGED <<directoryExists, changelogError, changelogAtCall, switchToBase, serviceVars,
                   assemblerVars, matcherVars, filterVars, pathVars, keyVars, dialogVars,
                   integrationVars, statusVars>>

\* the user answers 'Switch to Base Mode': configManager.enableBaseMode()
DialogSwitchToBase(p) ==
    /\ pc[p] = "dialog"
    /\ switchToBase' = [switchToBase EXCEPT ![p] = SWITCH_TO_BASE_MODE]
    /\ configMode' = "base"
    /\ pc' = [pc EXCEPT ![p] = "extract"]
    /\ UNCHANGED <<head, pendingStateChange, pendingRepositoryChange, apiKeyValid, autoGenerate,
                   changelog, backup, mode, commitInfo, changelogEntry, readResult, success>>
    /\ UNCHANGED <<directoryExists, changelogError, changelogAtCall, serviceVars, assemblerVars,
                   matcherVars, filterVars, pathVars, keyVars, dialogVars, integrationVars,
                   statusVars>>

(* The user answers 'Configure API Key': setOpenAIApiKey(), then the run   *)
(* returns.  The user may dismiss the input box; a key the box accepts is  *)
(* well-formed and is stored, the AI service is re-initialized (its        *)
(* connection test passes or fails) and the user may accept the switch to  *)
(* AI mode.                                                                *)
DialogConfigureKey(p) ==
    /\ pc[p] = "dialog"
    /\ switchToBase' = [switchToBase EXCEPT ![p] = "Configure API Key"]
    /\ \/ UNCHANGED <<apiKeyValid, configMode, initialized, initSuccess>>
       \/ \E connectionOk \in BOOLEAN, switchToAi \in BOOLEAN :
             /\ apiKeyValid' = TRUE
             /\ initialized' = initialize(FALSE, TRUE, connectionOk).initialized
             /\ initSuccess' = Some(initialize(FALSE, TRUE, connectionOk).returned)
             /\ configMode' = IF switchToAi THEN "ai" ELSE configMode
    /\ pc' = [pc EXCEPT ![p] = "done"]
    /\ UNCHANGED <<head, pendingStateChange, pendingRepositoryChange, autoGenerate, changelog,
                   backup, mode, commitInfo, changelogEntry, readResult, success>>
    /\ UNCHANGED <<directoryExists, changelogError, changelogAtCall, request, apiOutcome,
                   response, dialog, networkRequests, assemblerVars, matcherVars, filterVars,
                   pathVars, keyVars, dialogVars, integrationVars, statusVars>>

\* the user answers 'Cancel' or dismisses the dialog; the run returns
DialogCancel(p) ==
    /\ pc[p] = "dialog"
    /\ switchToBase' = [switchToBase EXCEPT ![p] = "Cancel"]
    /\ pc' = [pc EXCEPT ![p] = "done"]
    /\ UNCHANGED <<head, pendingStateChange, pendingRepositoryChange, configMode, apiKeyValid,
                   autoGenerate, changelog, backup, mode, commitInfo, changelogEntry,
                   readResult, success>>
    /\ UNCHANGED <<directoryExists, changelogError, changelogAtCall, serviceVars, assemblerVars,
                   matcherVars, filterVars, pathVars, keyVars, dialogVars, integrationVars,
                   statusVars>>

\* extractLatestCommit over the histories the repository goes through
LatestCommit == [h \in 0..(1 + MaxCommits), ai \in BOOLEAN |-> extractLatestCommit(h, ai)]

\* GitDataExtractor.extractLatestCommit; a failure is reported and the run
\* returns
ExtractCommit(p) ==
    /\ pc[p] = "extract"
    /\ LET gitDataResult == LatestCommit[head, mode[p] = "ai"]
       IN  IF gitDataResult.success
           THEN /\ commitInfo' = [commitInfo EXCEPT ![p] = gitDataResult.commitInfo]
                /\ pc' = [pc EXCEPT ![p] = "generate"]
           ELSE /\ commitInfo' = commitInfo
                /\ pc' = [pc EXCEPT ![p] = "done"]
    /\ UNCHANGED <<head, pendingStateChange, pendingRepositoryChange, configMode, apiKeyValid,
                   autoGenerate, changelog, backup, mode, changelogEntry, readResult, success>>
    /\ UNCHANGED <<directoryExists, changelogError, changelogAtCall, switchToBase, serviceVars,
                   assemblerVars, matcherVars, filterVars, pathVars, keyVars, dialogVars,
                   integrationVars, statusVars>>

\* writeToChangelog from line 248 on: the entry is persisted;
\* executeChangelogGeneration reports the result and returns
writeToChangelog(p, entry) ==
    LET writeResult == persistEntry(changelog, entry)
    IN  /\ changelog' = writeResult.file
        /\ success' = [success EXCEPT ![p] = IF writeResult.success THEN "yes" ELSE "no"]
        /\ changelogError' = [changelogError EXCEPT ![p] = writeResult.errorMessage]
        /\ pc' = [pc EXCEPT ![p] = "done"]

\* ChangelogGenerator.generateChangelogEntry: the options are validated;
\* failing that the call returns a failure with the validation's message.
\* Otherwise the entry is rendered, and writeToChangelog runs to its first
\* await: the backup's read when the file exists (createBackup is requested
\* by executeChangelogGeneration), the write itself otherwise.  The write
\* finds the parent directory in place, validation having required it.
GenerateChangelogEntry(p) ==
    /\ pc[p] = "generate"
    /\ changelogAtCall' = [changelogAtCall EXCEPT ![p] = changelog]
    /\ IF ~validateOptions(mode[p], changelogPath, directoryExists).isValid
       THEN /\ success' = [success EXCEPT ![p] = "no"]
            /\ changelogError' = [changelogError EXCEPT ![p] =
                                   validateOptions(mode[p], changelogPath, directoryExists).errorMessage]
            /\ pc' = [pc EXCEPT ![p] = "done"]
            /\ UNCHANGED <<changelog, changelogEntry, readResult>>
       ELSE LET entry == formatChangelogEntry(commitInfo[p], mode[p])
            IN  /\ changelogEntry' = [changelogEntry EXCEPT ![p] = entry]
                /\ IF fileExists(changelog)
                   THEN /\ readResult' = [readResult EXCEPT ![p] = readFile(changelog).content]
                        /\ pc' = [pc EXCEPT ![p] = "backup"]
                        /\ UNCHANGED <<changelog, success, changelogError>>
                   ELSE /\ writeToChangelog(p, entry)
                        /\ UNCHANGED readResult
    /\ UNCHANGED <<head, pendingStateChange, pendingRepositoryChange, configMode, apiKeyValid,
                   autoGenerate, backup, mode, commitInfo>>
    /\ UNCHANGED <<directoryExists, switchToBase, serviceVars, assemblerVars, matcherVars,
                   filterVars, pathVars, keyVars, dialogVars, integrationVars, statusVars>>

\* FileUtils.createBackup after its read: an empty content counts as a
\* failed read; otherwise the copy is written.
createBackup(copy, content) ==
    IF ~IsDefined(content) \/ content[1] = ""
    THEN Refused(copy, "Failed to read original file")
    ELSE writeFile(copy, content[1])

\* a faulty writeToChangelog that gives up when the backup failed
afterBackupRequiringSuccess(backupResult) ==
    IF backupResult.success THEN "write" ELSE "done"

\* writeToChangelog, lines 241-245: a failed backup is logged and the
\* write goes on
afterBackup(backupResult) == "write"

\* the backup's read has returned: the copy is made or not, and
\* writeToChangelog goes on
CreateBackup(p) ==
    /\ pc[p] = "backup"
    /\ LET backupResult == createBackup(backup, readResult[p])
       IN  /\ backup' = backupResult.file
           /\ pc' = [pc EXCEPT ![p] = afterBackup(backupResult)]
    /\ UNCHANGED <<head, pendingStateChange, pendingRepositoryChange, configMode, apiKeyValid,
                   autoGenerate, changelog, mode, commitInfo, changelogEntry, readResult,
                   success>>
    /\ UNCHANGED <<directoryExists, changelogError, changelogAtCall, switchToBase, serviceVars,
                   assemblerVars, matcherVars, filterVars, pathVars, keyVars, dialogVars,
                   integrationVars, statusVars>>

\* writeToChangelog after the backup
WriteAfterBackup(p) ==
    /\ pc[p] = "write"
    /\ writeToChangelog(p, changelogEntry[p])
    /\ UNCHANGED <<head, pendingStateChange, pendingRepositoryChange, configMode, apiKeyValid,
                   autoGenerate, backup, mode, commitInfo, changelogEntry, readResult>>
    /\ UNCHANGED <<directoryExists, changelogAtCall, switchToBase, serviceVars, assemblerVars,
                   matcherVars, filterVars, pathVars, keyVars, dialogVars, integrationVars,
                   statusVars>>

NextPipeline ==
    \/ Commit
    \/ OnDidChangeState
    \/ OnDidChangeRepository
    \/ GenerateCommand
    \/ \E p \in Runs : DialogSwitchToBase(p)
    \/ \E p \in Runs : DialogConfigureKey(p)
    \/ \E p \in Runs : DialogCancel(p)
    \/ \E p \in Runs : ExtractCommit(p)
    \/ \E p \in Runs : GenerateChangelogEntry(p)
    \/ \E p \in Runs : CreateBackup(p)
    \/ \E p \in Runs : WriteAfterBackup(p)

vars == <<pipelineVars, serviceVars, assemblerVars, matcherVars, filterVars, pathVars, keyVars, dialogVars, integrationVars, statusVars>>

Init == InitPipeline /\ ServiceConstructed /\ AssemblerIdle /\ MatcherIdle /\ FilterIdle /\ PathIdle /\ KeyIdle /\ DialogIdle /\ IntegrationIdle /\ StatusIdle

Next == NextPipeline

Spec == Init /\ [][Next]_vars

(***************************************************************************)
(* Properties of the pipeline.                                             *)
(***************************************************************************)
Succeeded == {p \in Runs : success[p] = "yes"}

\* the text a step added at the end of the changelog
AddedText == SubSeq(changelog'.content, Len(changelog.content) + 1, Len(changelog'.content))

\* the short-hash line of commit h's entry
HashLine(h) == "**Hash:** '" \o SubSeq(GitLog(h).hash, 1, 8) \o "'"

\* the entries in the changelog
EntryCount == Occurrences(changelog.content, "## Commit: ")

(* C1: the changelog is append-only.  No step removes an existing          *)
(* changelog or changes what it holds: the content before the step is a   *)
(* prefix of the content after it; and when a generation succeeds on an    *)
(* existing file, the file is the prior content followed by new text that  *)
(* contains the rendered entry and ends with the separator (and the        *)
(* newline that closes it).                                                *)
C1_AppendOnly ==
    [][ /\ changelog.exists =>
              /\ changelog'.exists
              /\ startsWith(changelog'.content, changelog.content)
        /\ \A p \in Runs :
              (changelog.exists /\ success[p] # "yes" /\ success'[p] = "yes") =>
                  /\ includes(AddedText, changelogEntry'[p])
                  /\ endsWith(AddedText, CHANGELOG_SEPARATOR \o "\n")
                  /\ changelog'.content = changelog.content \o AddedText ]_vars

\* two generations have succeeded on a file the user had text in
C1_Witness ==
    /\ Cardinality(Succeeded) = 2
    /\ startsWith(changelog.content, UserText)
    /\ EntryCount = 2

\* the block one generation leaves in the file: the entry, then the separator
Block(e) == e \o "\n" \o CHANGELOG_SEPARATOR \o "\n"

\* the orders in which the runs of S can take turns
Orders(S) == {o \in [1..Cardinality(S) -> S] : \A i, j \in 1..Cardinality(S) : o[i] = o[j] => i = j}

\* the file after the runs of order o have written one after the other,
\* each one completely, to the file first
RECURSIVE OneAfterTheOther(_, _, _)
OneAfterTheOther(first, o, n) ==
    IF n = 0 THEN first.content
    ELSE IF n = 1 /\ ~first.exists
    THEN "# Changelog\n\nGenerated by Changelogger VS Code Extension\n" \o CHANGELOG_SEPARATOR \o "\n"
         \o Block(changelogEntry[o[1]])
    ELSE OneAfterTheOther(first, o, n - 1) \o "\n" \o Block(changelogEntry[o[n]])

(* C2: generations in flight at the same time are serialized: whatever the *)
(* interleaving, the changelog is what the generations that succeeded      *)
(* leave when they write one after the other in some order, each block     *)
(* whole, none lost, none mixed with another; also when the file did not   *)
(* exist when they started.                                                *)
C2_WritesSerialized ==
    \E first \in InitialChangelogs, o \in Orders(Succeeded) :
        /\ changelog.exists = (first.exists \/ Succeeded # {})
        /\ changelog.content = OneAfterTheOther(first, o, Cardinality(Succeeded))

\* run 1 started first and wrote last: the file, absent at the start, was
\* created by run 2 and run 1's entry follows
C2_Witness ==
    /\ Succeeded = {1, 2}
    /\ changelogEntry[1] # changelogEntry[2]
    /\ changelog.content = initialContent(changelogEntry[2]) \o entryWithSeparator(changelogEntry[1])

(* C3: appends are idempotent per commit: the changelog holds at most one  *)
(* entry for a commit hash.                                                *)
C3_OneEntryPerCommit ==
    \A h \in 1..(1 + MaxCommits) : Occurrences(changelog.content, HashLine(h)) <= 1

(* C4: a run in AI mode that ends while the latest commit can be extracted *)
(* and the changelog can be written has persisted an entry, whatever the   *)
(* state of the summarizer's configuration.                                *)
C4_WriteNotPrevented ==
    [][ \A p \in Runs :
          ( /\ mode'[p] = "ai"
            /\ pc[p] # "done" /\ pc'[p] = "done"
            /\ LatestCommit[head, TRUE].success
            /\ changelog.writable )
          => success'[p] = "yes" ]_vars
\* the commit record has a file for the summarizer
HasEligibleFile(info) ==
    \E i \in 1..Len(info.fileChanges) :
        info.fileChanges[i].includeInAI /\ IsDefined(info.fileChanges[i].diffContent)

(* C5: in AI mode, for a commit with at least one eligible file, the       *)
(* summarizer has been called before the entry was rendered and the        *)
(* AI-summary section of the written entry holds the summary it returned.  *)
C5_SummaryInEntry ==
    \A p \in Succeeded :
        (mode[p] = "ai" /\ HasEligibleFile(commitInfo[p])) =>
            /\ response.success
            /\ IsDefined(response.summary)
            /\ includes(changelogEntry[p], response.summary[1])

(* C13: assembly fails only when the repository has no commit: whenever a  *)
(* latest commit exists, a commit without a parent included, a run's       *)
(* extractLatestCommit returns success with that commit's record.          *)
C13_AssemblySucceeds ==
    [][ \A p \in Runs :
          (pc[p] = "extract" /\ pc'[p] # "extract" /\ head >= 1)
          => (pc'[p] = "generate" /\ commitInfo'[p].hash = GitLog(head).hash) ]_vars

(* C20: parent directories are created implicitly: generateChangelogEntry  *)
(* for a changelog path whose parent directory does not exist creates the  *)
(* directory, writes the file and returns success.                         *)
C20_DirectoriesCreated ==
    [][ \A p \in Runs :
          (pc[p] = "generate" /\ pc'[p] # "generate" /\ ~directoryExists /\ changelog.writable)
          => (directoryExists' /\ changelog'.exists /\ success'[p] = "yes") ]_vars

(* C21: a failed write persists nothing: whenever generateChangelogEntry    *)
(* returns success = false (invalid options or path, missing write         *)
(* permission, a failing write or append), the changelog file exists or    *)
(* not and holds what it did when the call was made, and the call has      *)
(* returned a result with an error message.                                *)
C21_FailedWritePersistsNothing ==
    [][ \A p \in Runs :
          (success[p] # "no" /\ success'[p] = "no") =>
              /\ changelog'.exists = changelogAtCall'[p].exists
              /\ changelog'.content = changelogAtCall'[p].content
              /\ pc'[p] = "done"
              /\ IsDefined(changelogError'[p])
              /\ changelogError'[p][1] # "" ]_vars

\* a generation has failed on the append, after the backup was made, the
\* file being write-protected; another has failed on the same file
C21_Witness ==
    /\ \A p \in Runs : success[p] = "no" /\ changelogError[p] = Some(NO_WRITE_ACCESS)
    /\ changelog = [exists |-> TRUE, content |-> UserText, writable |-> FALSE]
    /\ backup.content = UserText

\* the append of an existing changelog, as FileUtils.appendFile decides it
AppendOutcome(file) == IF file.writable THEN "yes" ELSE "no"

(* C22: the backup is best-effort and never a precondition of the append:  *)
(* when the changelog exists (a backup is always requested), the step      *)
(* after the backup's read goes on to the write whether the copy is made   *)
(* or not, an empty changelog included; and the write then appends the     *)
(* entry and the call's result is the append's.                            *)
C22_BackupBestEffort ==
    [][ \A p \in Runs :
          /\ (pc[p] = "backup" /\ pc'[p] # "backup") => pc'[p] = "write"
          /\ (pc[p] = "write" /\ pc'[p] # "write") =>
                /\ changelog.exists
                /\ success'[p] = AppendOutcome(changelog)
                /\ success'[p] = "yes" =>
                      changelog'.content = changelog.content \o entryWithSeparator(changelogEntry[p]) ]_vars

\* entries were appended although no copy could be made: to an empty
\* changelog, of which createBackup makes none, and beside a
\* write-protected stale copy
C22_Witness ==
    \/ /\ Succeeded # {}
       /\ ~backup.exists
       /\ \E p \in Succeeded : changelog.content = entryWithSeparator(changelogEntry[p])
    \/ /\ Succeeded # {}
       /\ backup = StaleBackup
       /\ startsWith(changelog.content, UserText)

\* the commit record carries no diff data for the summarizer
NoDiffData(info) ==
    \A i \in 1..Len(info.fileChanges) :
        ~info.fileChanges[i].includeInAI /\ ~IsDefined(info.fileChanges[i].diffContent)

(* C27: once the user has answered 'Switch to Base Mode' to the warning    *)
(* about the AI configuration, the rest of that run behaves as a base-mode *)
(* run: the commit is extracted without diff data for the summarizer, and  *)
(* the rendered entry has neither the AI-summary section nor the count of  *)
(* the files processed for AI.                                             *)
C27_RestOfRunIsBase ==
    \A p \in Runs :
        switchToBase[p] = SWITCH_TO_BASE_MODE =>
            /\ NoDiffData(commitInfo[p])
            /\ ~includes(changelogEntry[p], "### AI Summary:")
            /\ ~includes(changelogEntry[p], "- Files processed for AI: ")

(***************************************************************************)
(* Summarization Client (OpenAIService).                                   *)
(***************************************************************************)
\* maximum total tokens to send to OpenAI
MAX_PROMPT_TOKENS == 8000

\* s.trim()
RECURSIVE trim(_)
trim(s) ==
    IF Len(s) = 0 THEN s
    ELSE IF IsBlank(Ch(s, 1)) THEN trim(SubSeq(s, 2, Len(s)))
    ELSE IF IsBlank(Ch(s, Len(s))) THEN trim(SubSeq(s, 1, Len(s) - 1))
    ELSE s

\* f.includeInAI && f.diffContent
HasDiffForAI(f) == f.includeInAI /\ IsDefined(f.diffContent) /\ f.diffContent[1] # ""

\* a faulty validation that does not look for a file with a diff
validateRequestShapeOnly(req) ==
    IF trim(req.commitMessage) = ""
    THEN [isValid |-> FALSE, error |-> "Commit message is required"]
    ELSE IF Len(req.fileChanges) = 0
    THEN [isValid |-> FALSE, error |-> "File changes are required"]
    ELSE [isValid |-> TRUE, error |-> ""]

\* the result {isValid, error?}
validateRequest(req) ==
    IF trim(req.commitMessage) = ""
    THEN [isValid |-> FALSE, error |-> "Commit message is required"]
    ELSE IF Len(req.fileChanges) = 0
    THEN [isValid |-> FALSE, error |-> "File changes are required"]
    ELSE IF Len(SelectSeq(req.fileChanges, HasDiffForAI)) = 0
    THEN [isValid |-> FALSE, error |-> "No files with diff content available for AI processing"]
    ELSE [isValid |-> TRUE, error |-> ""]

RECURSIVE OverviewLines(_)
OverviewLines(files) ==
    IF Len(files) = 0 THEN <<>>
    ELSE <<files[1].changeSymbol \o " " \o files[1].filePath \o " (" \o files[1].changeType \o ")">>
         \o OverviewLines(Tail(files))

RECURSIVE DiffLines(_)
DiffLines(files) ==
    IF Len(files) = 0 THEN <<>>
    ELSE <<"\n--- " \o files[1].filePath \o " ---", files[1].diffContent[1]>> \o DiffLines(Tail(files))

buildPrompt(req) ==
    LET filesWithDiff == SelectSeq(req.fileChanges, HasDiffForAI)
        lines == <<"Please analyze the following git commit and provide a concise summary in 2 sentences or less.",
                   "Focus on the functional impact and purpose of the changes.",
                   "",
                   "Commit Message: " \o req.commitMessage,
                   "",
                   "File Changes:">>
                 \o OverviewLines(req.fileChanges)
                 \o <<"">>
                 \o (IF Len(filesWithDiff) > 0 THEN <<"Code Changes:">> \o DiffLines(filesWithDiff) ELSE <<>>)
                 \o (IF IsDefined(req.context) /\ req.context[1] # ""
                     THEN <<"", "Additional Context: " \o req.context[1]>>
                     ELSE <<>>)
    IN  join(lines, "\n")

\* a faulty estimate that rounds down
estimateTokensRoundingDown(text) == Len(text) \div 4

\* Math.ceil(text.length / 4)
estimateTokens(text) == (Len(text) + 3) \div 4

\* a faulty classification that looks for an authentication failure first
handleOpenAIErrorAuthenticationFirst(error) ==
    IF error.isObject
    THEN LET errorMessage == IF error.message # "" THEN error.message ELSE "Error"
         IN  IF includes(errorMessage, "401") \/ includes(errorMessage, "authentication")
                   \/ includes(errorMessage, "invalid_api_key")
             THEN "authentication"
             ELSE IF includes(errorMessage, "429") \/ includes(errorMessage, "quota")
                        \/ includes(errorMessage, "billing")
             THEN "billing"
             ELSE IF includes(errorMessage, "rate_limit") \/ includes(errorMessage, "too many requests")
             THEN "rateLimit"
             ELSE IF includes(errorMessage, "403") \/ includes(errorMessage, "404")
                        \/ includes(errorMessage, "model") \/ includes(errorMessage, "permission")
             THEN "model"
             ELSE "none"
    ELSE "none"

(* handleOpenAIError: the dialog it brings up ("none": the error is only   *)
(* logged).  An error is [isObject, message]; for a value that is no       *)
(* object, message is the value as a string.                               *)
handleOpenAIError(error) ==
    IF error.isObject
    THEN LET errorMessage == IF error.message # "" THEN error.message ELSE "Error"
         IN  IF includes(errorMessage, "429") \/ includes(errorMessage, "quota")
                   \/ includes(errorMessage, "billing")
             THEN "billing"
             ELSE IF includes(errorMessage, "401") \/ includes(errorMessage, "authentication")
                        \/ includes(errorMessage, "invalid_api_key")
             THEN "authentication"
             ELSE IF includes(errorMessage, "rate_limit") \/ includes(errorMessage, "too many requests")
             THEN "rateLimit"
             ELSE IF includes(errorMessage, "403") \/ includes(errorMessage, "404")
                        \/ includes(errorMessage, "model") \/ includes(errorMessage, "permission")
             THEN "model"
             ELSE "none"
    ELSE "none"

\* the actions the dialog of a kind offers (show*ErrorDialog)
dialogActions(kind) ==
    CASE kind = "billing" -> <<"Check Billing", SWITCH_TO_BASE_MODE, "Dismiss">>
      [] kind = "authentication" -> <<"Update API Key", "Check API Key", "Dismiss">>
      [] kind = "rateLimit" -> <<"Retry Later", SWITCH_TO_BASE_MODE, "Dismiss">>
      [] kind = "model" -> <<"Check Account", SWITCH_TO_BASE_MODE, "Dismiss">>
      [] OTHER -> <<>>

Failure(message, ctx) ==
    [success |-> FALSE, summary |-> Undefined, errorMessage |-> Some(message), context |-> Some(ctx)]

(* generateChangeSummary on a client that is or is not initialized, for a  *)
(* request and for what the API does if the request is sent: the response, *)
(* the dialog brought up and the number of requests sent.                  *)
generateChangeSummary(isReady, req, outcome) ==
    IF ~isReady
    THEN [response |-> Failure("OpenAI service not initialized", "Service must be initialized with valid API key"),
          dialog |-> "none", sent |-> 0]
    ELSE IF ~validateRequest(req).isValid
    THEN [response |-> Failure(validateRequest(req).error, "Request validation failed"),
          dialog |-> "none", sent |-> 0]
    ELSE LET estimatedTokens == estimateTokens(buildPrompt(req)) IN
    IF estimatedTokens > MAX_PROMPT_TOKENS
    THEN [response |-> Failure("Prompt too long: " \o ToString(estimatedTokens) \o " tokens (max: "
                                   \o ToString(MAX_PROMPT_TOKENS) \o ")",
                               "Consider reducing the number of files or diff content"),
          dialog |-> "none", sent |-> 0]
    ELSE IF outcome.kind = "error"
    THEN [response |-> Failure("Failed to generate change summary: " \o outcome.error.message,
                               "OpenAI API request failed"),
          dialog |-> handleOpenAIError(outcome.error), sent |-> 1]
    ELSE IF ~IsDefined(outcome.content) \/ trim(outcome.content[1]) = ""
    THEN [response |-> Failure("No summary generated by OpenAI", "OpenAI returned empty response"),
          dialog |-> "none", sent |-> 1]
    ELSE [response |-> [success |-> TRUE, summary |-> Some(trim(outcome.content[1])),
                        errorMessage |-> Undefined, context |-> Undefined],
          dialog |-> "none", sent |-> 1]

(***************************************************************************)
(* The client as a state machine: one generateChangeSummary call on a      *)
(* client that initialize and dispose have left in either state, for a     *)
(* request and an API behaviour drawn when the call is set up.             *)
(***************************************************************************)
EligibleFile(n) ==
    [filePath |-> "login.ts", changeType |-> "added", changeSymbol |-> "+",
     includeInAI |-> TRUE, diffContent |-> Some(Pad(n)), fileSize |-> Some(n)]

\* files that are listed in the prompt and give the summarizer nothing
DeletedFile ==
    [filePath |-> "temp.js", changeType |-> "deleted", changeSymbol |-> "-",
     includeInAI |-> FALSE, diffContent |-> Undefined, fileSize |-> Undefined]

IgnoredFile ==
    [filePath |-> "debug.log", changeType |-> "added", changeSymbol |-> "+",
     includeInAI |-> FALSE, diffContent |-> Some("+boot"), fileSize |-> Some(5)]

ListedOnlyFiles ==
    {DeletedFile, IgnoredFile,
     [filePath |-> "logo.png", changeType |-> "modified", changeSymbol |-> "*",
      includeInAI |-> TRUE, diffContent |-> Undefined, fileSize |-> Undefined],
     [filePath |-> "empty.ts", changeType |-> "modified", changeSymbol |-> "*",
      includeInAI |-> TRUE, diffContent |-> Some(""), fileSize |-> Undefined]}

\* the prompt's length for a request whose only file is EligibleFile(n), less n
PromptOverhead ==
    Len(buildPrompt([commitMessage |-> "Add login", fileChanges |-> <<EligibleFile(1)>>,
                     context |-> Undefined])) - 1

\* diff sizes: small ones, and those that bring the prompt to the budget
DiffSizes ==
    {1, 120} \cup {4 * MAX_PROMPT_TOKENS - PromptOverhead + d : d \in (0 - PromptSlack)..PromptSlack}

RequestFiles == {EligibleFile(n) : n \in DiffSizes} \cup ListedOnlyFiles

\* the lists of fewer than MaxFiles listed-only files
ListedPrefixes == UNION {[1..n -> {DeletedFile, IgnoredFile}] : n \in 0..(MaxFiles - 1)}

FileLists == {<<>>} \cup {prefix \o <<f>> : prefix \in ListedPrefixes, f \in RequestFiles}

Requests ==
    {[commitMessage |-> "Add login", fileChanges |-> fs, context |-> c] :
        fs \in FileLists, c \in {Undefined, Some("hotfix")}}
    \cup {[commitMessage |-> m, fileChanges |-> <<EligibleFile(1)>>, context |-> Undefined] :
        m \in {"", "  "}}

\* what failure messages are made of
Fragments ==
    <<"429", "insufficient_quota", "billing", "401", "authentication", "invalid_api_key",
      "rate_limit", "too many requests", "403", "404", "model", "permission", "timeout">>

ErrorMessages ==
    {""} \cup {Fragments[i] : i \in 1..Len(Fragments)}
         \cup UNION {{"Error " \o Fragments[i] \o ": " \o Fragments[j] : j \in (i + 1)..Len(Fragments)} :
                        i \in 1..Len(Fragments)}

\* what the API does with a request: it answers, or the call throws
ApiOutcomes ==
    {[kind |-> "completion", content |-> c] : c \in {Undefined, Some(""), Some("  "), Some(" Adds a login function.\n")}}
    \cup {[kind |-> "error", error |-> [isObject |-> TRUE, message |-> m]] : m \in ErrorMessages}
    \cup {[kind |-> "error", error |-> [isObject |-> FALSE, message |-> m]] : m \in {"429", "quota exceeded", "socket hang up"}}

\* a request that passes every check before the API is called
SmallRequest == [commitMessage |-> "Add login", fileChanges |-> <<EligibleFile(120)>>, context |-> Undefined]

\* an answer, an authentication failure, a failure no case matches
FewOutcomes ==
    {[kind |-> "completion", content |-> Some(" Adds a login function.\n")],
     [kind |-> "error", error |-> [isObject |-> TRUE, message |-> "401 invalid_api_key"]],
     [kind |-> "error", error |-> [isObject |-> TRUE, message |-> "socket hang up"]]}

\* every request with a few API behaviours, and every API behaviour for a
\* request that is sent
InitService ==
    /\ initialized = FALSE
    /\ initSuccess = Undefined
    /\ \/ request \in Requests /\ apiOutcome \in FewOutcomes
       \/ request = SmallRequest /\ apiOutcome \in ApiOutcomes
    /\ response = NoResponse
    /\ dialog = "none"
    /\ networkRequests = 0

\* the pipeline at rest
PipelineIdle ==
    /\ head = 1
    /\ pendingStateChange = FALSE
    /\ pendingRepositoryChange = FALSE
    /\ configMode = "ai"
    /\ apiKeyValid = TRUE
    /\ autoGenerate = FALSE
    /\ changelog = NoFile
    /\ directoryExists = TRUE
    /\ backup = NoFile
    /\ pc = [p \in Runs |-> "idle"]
    /\ mode = [p \in Runs |-> "base"]
    /\ commitInfo = [p \in Runs |-> NoCommitInfo]
    /\ changelogEntry = [p \in Runs |-> ""]
    /\ readResult = [p \in Runs |-> Undefined]
    /\ success = [p \in Runs |-> "unknown"]
    /\ changelogError = [p \in Runs |-> Undefined]
    /\ changelogAtCall = [p \in Runs |-> NoFile]
    /\ switchToBase = [p \in Runs |-> "none"]

\* the call has returned
Returned == response # NoResponse

\* OpenAIService.initialize
Initialize ==
    /\ ~Returned
    /\ \E keyWellFormed \in BOOLEAN, connectionOk \in BOOLEAN :
          LET result == initialize(initialized, keyWellFormed, connectionOk)
          IN  /\ initialized' = result.initialized
              /\ initSuccess' = Some(result.returned)
    /\ UNCHANGED <<request, apiOutcome, response, dialog, networkRequests>>
    /\ UNCHANGED <<pipelineVars, assemblerVars, matcherVars, filterVars, pathVars, keyVars,
                   dialogVars, integrationVars, statusVars>>

\* OpenAIService.dispose
Dispose ==
    /\ ~Returned
    /\ initialized' = FALSE
    /\ initSuccess' = Undefined
    /\ UNCHANGED <<request, apiOutcome, response, dialog, networkRequests>>
    /\ UNCHANGED <<pipelineVars, assemblerVars, matcherVars, filterVars, pathVars, keyVars,
                   dialogVars, integrationVars, statusVars>>

\* OpenAIService.generateChangeSummary(request)
GenerateChangeSummary ==
    /\ ~Returned
    /\ LET result == generateChangeSummary(initialized, request, apiOutcome)
       IN  /\ response' = result.response
           /\ dialog' = result.dialog
           /\ networkRequests' = networkRequests + result.sent
    /\ UNCHANGED <<initialized, initSuccess, request, apiOutcome>>
    /\ UNCHANGED <<pipelineVars, assemblerVars, matcherVars, filterVars, pathVars, keyVars,
                   dialogVars, integrationVars, statusVars>>

NextService == Initialize \/ Dispose \/ GenerateChangeSummary

InitClient == InitService /\ PipelineIdle /\ AssemblerIdle /\ MatcherIdle /\ FilterIdle /\ PathIdle /\ KeyIdle /\ DialogIdle /\ IntegrationIdle /\ StatusIdle

SpecService == InitClient /\ [][NextService]_vars

(***************************************************************************)
(* Properties of the client.                                               *)
(***************************************************************************)
\* the call sent its request and the API failed it with an Error
FailedWithError ==
    Returned /\ networkRequests = 1 /\ apiOutcome.kind = "error" /\ apiOutcome.error.isObject

MentionsAny(m, keywords) == \E k \in keywords : includes(m, k)

QuotaKeywords == {"429", "quota", "billing"}
AuthenticationKeywords == {"401", "authentication", "invalid_api_key"}
RateLimitKeywords == {"rate_limit", "too many requests"}
ModelKeywords == {"403", "404", "model", "permission"}

(* C6: a failure is classified by the first case that matches, in the      *)
(* order quota/billing, authentication, rate limit, model/permission,      *)
(* unknown: a message with "insufficient_quota" gets the quota/billing     *)
(* handling even when it has "429" too, and a message no case matches gets *)
(* no dialog.                                                              *)
C6_FirstMatchWins ==
    FailedWithError =>
        LET m == apiOutcome.error.message
        IN  /\ MentionsAny(m, QuotaKeywords) => dialog = "billing"
            /\ (~MentionsAny(m, QuotaKeywords) /\ MentionsAny(m, AuthenticationKeywords))
                  => dialog = "authentication"
            /\ (~MentionsAny(m, QuotaKeywords \cup AuthenticationKeywords)
                  /\ MentionsAny(m, RateLimitKeywords))
                  => dialog = "rateLimit"
            /\ (~MentionsAny(m, QuotaKeywords \cup AuthenticationKeywords \cup RateLimitKeywords)
                  /\ MentionsAny(m, ModelKeywords))
                  => dialog = "model"
            /\ ~MentionsAny(m, QuotaKeywords \cup AuthenticationKeywords
                                 \cup RateLimitKeywords \cup ModelKeywords)
                  => dialog = "none"
            /\ includes(m, "insufficient_quota") => dialog = "billing"

\* a failure with "insufficient_quota" and "429" has brought up the billing dialog
C6_Witness ==
    /\ FailedWithError
    /\ includes(apiOutcome.error.message, "insufficient_quota")
    /\ includes(apiOutcome.error.message, "429")
    /\ dialog = "billing"

(* C7: a failure message that has "429" and "rate_limit" and no quota or   *)
(* billing keyword gets the rate-limit handling.                           *)
C7_RateLimited ==
    ( /\ FailedWithError
      /\ includes(apiOutcome.error.message, "429")
      /\ includes(apiOutcome.error.message, "rate_limit")
      /\ ~MentionsAny(apiOutcome.error.message, {"quota", "billing"}) )
    => dialog = "rateLimit"

(* C25: every error dialog shown for a classified API failure (quota or    *)
(* billing, authentication, rate limit, model access) offers the action    *)
(* to switch to Base mode.                                                 *)
C25_DialogOffersBaseMode ==
    dialog # "none" =>
        \E i \in 1..Len(dialogActions(dialog)) : dialogActions(dialog)[i] = SWITCH_TO_BASE_MODE

\* the prompt generateChangeSummary builds for the request of the call
Prompt == buildPrompt(request)

\* the request passes the checks that come before the prompt is built
Summarizable ==
    /\ ~IsBlank(request.commitMessage)
    /\ \E i \in 1..Len(request.fileChanges) :
          /\ request.fileChanges[i].includeInAI
          /\ IsDefined(request.fileChanges[i].diffContent)
          /\ request.fileChanges[i].diffContent[1] # ""

PromptTooLong ==
    /\ ~response.success
    /\ IsDefined(response.errorMessage)
    /\ startsWith(response.errorMessage[1], "Prompt too long")

(* C8: when the estimate of the built prompt, its length over 4 rounded up, *)
(* exceeds 8000 (the prompt is longer than 32000 characters), the call      *)
(* returns the 'prompt too long' failure and sends nothing; a request is    *)
(* sent only for an estimate of at most 8000.                               *)
C8_PromptSizeGuard ==
    Returned =>
        /\ (initialized /\ Summarizable /\ Len(Prompt) > 4 * 8000)
              => (PromptTooLong /\ networkRequests = 0)
        /\ networkRequests > 0 => Len(Prompt) <= 4 * 8000

\* a prompt of 32001 characters, one over the budget, was refused
C8_Witness ==
    /\ Returned
    /\ initialized
    /\ Len(Prompt) = 4 * 8000 + 1
    /\ PromptTooLong
    /\ networkRequests = 0

(* C9: a call on a client that is not initialized, or for a record without *)
(* a file that is both eligible and has a non-empty diff, returns a        *)
(* failure and sends nothing.                                              *)
C9_NoRequestWithoutPreconditions ==
    (Returned /\ (~initialized \/ ~Summarizable)) =>
        (~response.success /\ networkRequests = 0)

\* an initialized client has refused a record whose files are listed only
C9_Witness ==
    /\ Returned
    /\ initialized
    /\ ~IsBlank(request.commitMessage)
    /\ Len(request.fileChanges) > 0
    /\ ~Summarizable
    /\ ~response.success
    /\ networkRequests = 0

(* C29: whenever initialize has returned false, whatever the reason and   *)
(* whatever the client's state before the call, the client is not          *)
(* initialized afterwards and a following generateChangeSummary fails with *)
(* 'OpenAI service not initialized' without a request sent; and whenever   *)
(* it has returned true the client is initialized.                         *)
C29_InitializeFailsClosed ==
    /\ initSuccess = Some(FALSE) =>
          /\ ~initialized
          /\ Returned => /\ response.errorMessage = Some("OpenAI service not initialized")
                         /\ networkRequests = 0
    /\ initSuccess = Some(TRUE) => initialized

(***************************************************************************)
(* The assembly of one commit's file changes as a state machine: the loop  *)
(* of extractFileChanges over a diff listing drawn at the start, one file  *)
(* per step.                                                               *)
(***************************************************************************)
DiffEntries ==
    {TextFile("login.ts", i, d) : i \in 0..MaxCount, d \in 0..MaxCount}
    \cup {TextFile("debug.log", 1, 0), BinaryFile("logo.png"), TextFile("max.ts", 1, 0),
          TextFile("big.ts", 1, 0), TextFile("gone.ts", 1, 1), TextFile("blank.ts", 0, 0)}

DiffListings == UNION {[1..n -> DiffEntries] : n \in 0..MaxFiles}

RECURSIVE Repeat(_, _)
Repeat(line, n) == IF n = 0 THEN "" ELSE line \o Repeat(line, n - 1)

\* the diff of a text file: as many removed and added lines as the entry
\* of the listing counts
DiffOf(file) ==
    LET name == "a/" \o file.file \o " b/" \o file.file
        header == "diff --git " \o name
    IN  IF ~file.text
        THEN header \o "\nindex 4444444..5555555 100644\nBinary files " \o name \o " differ"
        ELSE IF file.insertions = 0 /\ file.deletions = 0
        THEN header \o "\nold mode 100644\nnew mode 100755"
        ELSE header \o "\nindex 6666666..7777777 100644\n--- a/" \o file.file \o "\n+++ b/" \o file.file
             \o "\n@@ -1," \o ToString(file.deletions) \o " +1," \o ToString(file.insertions) \o " @@"
             \o Repeat("\n-old", file.deletions) \o Repeat("\n+new", file.insertions)

\* the diff of a new one-line file, n characters long and all of it kept by
\* the filter
DiffOfLength(name, n) ==
    LET start == "diff --git a/" \o name \o " b/" \o name \o "\n--- /dev/null\n+++ b/" \o name
                 \o "\n@@ -0,0 +1 @@\n+"
    IN  start \o Pad(n - Len(start))

\* git.diff([h~1, h, '--', file]) for an entry of the listing: max.ts has a
\* diff of the largest size kept and big.ts one beyond it, gone.ts cannot
\* be read by git, blank.ts has no diff text
GitDiffOutcome(file) ==
    CASE file.file = "max.ts" -> DiffReturned(DiffOfLength(file.file, MAX_DIFF_SIZE))
      [] file.file = "big.ts" -> DiffReturned(DiffOfLength(file.file, MAX_DIFF_SIZE + 1))
      [] file.file = "gone.ts" -> DiffThrew
      [] file.file = "blank.ts" -> DiffReturned("\n")
      [] OTHER -> DiffReturned(DiffOf(file))

\* the FileChange the loop builds for each entry
FileChangeFor ==
    [file \in DiffEntries, ai \in BOOLEAN |->
        buildFileChange(file, GitDiffOutcome(file), ai, IF ai THEN loadClogIgnorePatterns ELSE <<>>)]

InitAssembler ==
    /\ includeAIData \in BOOLEAN
    /\ diffFiles \in DiffListings
    /\ fileChanges = <<>>
    /\ fileIndex = 0

\* one pass of the loop `for (const file of diffSummary.files)`
ProcessFile ==
    /\ fileIndex < Len(diffFiles)
    /\ fileChanges' = pushFileChange(fileChanges, FileChangeFor[diffFiles[fileIndex + 1], includeAIData])
    /\ fileIndex' = fileIndex + 1
    /\ UNCHANGED <<includeAIData, diffFiles>>
    /\ UNCHANGED <<pipelineVars, serviceVars, matcherVars, filterVars, pathVars, keyVars,
                   dialogVars, integrationVars, statusVars>>

NextAssembler == ProcessFile

InitAssembly == InitAssembler /\ PipelineIdle /\ ServiceConstructed /\ MatcherIdle /\ FilterIdle /\ PathIdle /\ KeyIdle /\ DialogIdle /\ IntegrationIdle /\ StatusIdle

SpecAssemble == InitAssembly /\ [][NextAssembler]_vars

(***************************************************************************)
(* Properties of the assembly.                                             *)
(***************************************************************************)
Kinds == {"added", "deleted", "modified"}

SymbolOf(kind) == IF kind = "added" THEN "+" ELSE IF kind = "deleted" THEN "-" ELSE "*"

(* C10: the classification is a total function of a file's counts:         *)
(* insertions > 0 and deletions = 0 give (added, '+'), insertions = 0 and  *)
(* deletions > 0 give (deleted, '-'), everything else, binary files        *)
(* included, gives (modified, '*'); every file of the listing gets exactly *)
(* one kind, and the kind determines the symbol.                           *)
C10_ClassificationTotal ==
    \A i \in 1..Len(fileChanges) :
        LET file == diffFiles[i]
            change == fileChanges[i]
            onlyInsertions == file.text /\ file.insertions > 0 /\ file.deletions = 0
            onlyDeletions == file.text /\ file.insertions = 0 /\ file.deletions > 0
        IN  /\ change.filePath = file.file
            /\ change.changeType \in Kinds
            /\ change.changeSymbol = SymbolOf(change.changeType)
            /\ onlyInsertions => change.changeType = "added"
            /\ onlyDeletions => change.changeType = "deleted"
            /\ (~onlyInsertions /\ ~onlyDeletions) => change.changeType = "modified"

\* a binary file and a file with insertions and deletions were both
\* classified as modified
C10_Witness ==
    /\ Len(fileChanges) = 2
    /\ ~diffFiles[1].text
    /\ fileChanges[1].changeType = "modified"
    /\ diffFiles[2].text /\ diffFiles[2].insertions > 0 /\ diffFiles[2].deletions > 0
    /\ fileChanges[2].changeType = "modified"
    /\ fileChanges[2].changeSymbol = "*"

\* per entry of the listing: a loaded ignore pattern matches its path
MatchesIgnorePattern ==
    [file \in DiffEntries |->
        \E n \in 1..Len(loadClogIgnorePatterns) : matchesPattern(file.file, loadClogIgnorePatterns[n])]

\* per entry of the listing: git returned a diff text for it
DiffObtained ==
    [file \in DiffEntries |-> ~GitDiffOutcome(file).threw /\ ~IsBlank(GitDiffOutcome(file).diff)]

(* C11: in every FileChange assembled, the diff is present iff includeInAI  *)
(* is true iff the size is present; a present diff is non-empty, at most    *)
(* 50,000 long and as long as the size says; includeInAI is true only if    *)
(* summarization was enabled, the file is not deleted, its path matches no  *)
(* ignore pattern and a diff was obtained for it.                           *)
C11_FileChangeInvariant ==
    \A i \in 1..Len(fileChanges) :
        LET file == diffFiles[i]
            change == fileChanges[i]
        IN  /\ IsDefined(change.diffContent) <=> change.includeInAI
            /\ IsDefined(change.fileSize) <=> change.includeInAI
            /\ IsDefined(change.diffContent) =>
                  /\ change.diffContent[1] # ""
                  /\ Len(change.diffContent[1]) <= 50000
                  /\ change.fileSize = <<Len(change.diffContent[1])>>
            /\ change.includeInAI =>
                  /\ includeAIData
                  /\ change.changeType # "deleted"
                  /\ ~MatchesIgnorePattern[file]
                  /\ DiffObtained[file]

\* with summarization enabled, a file with a diff of 50,000 characters was
\* listed with it and a file with a longer one without
C11_Witness ==
    /\ includeAIData
    /\ fileIndex = 2
    /\ diffFiles[1].file = "max.ts"
    /\ fileChanges[1].includeInAI /\ fileChanges[1].fileSize = <<50000>>
    /\ diffFiles[2].file = "big.ts"
    /\ ~fileChanges[2].includeInAI /\ ~IsDefined(fileChanges[2].diffContent)

(* C12: the changes list holds exactly one FileChange per file of the diff  *)
(* listing the loop is past, in the listing's order, whatever happened to   *)
(* the file's diff; once the loop is through, one per file of the listing.  *)
C12_OneChangePerFile ==
    /\ fileIndex <= Len(diffFiles)
    /\ Len(fileChanges) = fileIndex
    /\ \A i \in 1..Len(fileChanges) : fileChanges[i].filePath = diffFiles[i].file

\* with summarization enabled, the loop went past a file git could not
\* read, an ignored file and a file with too large a diff, and listed all
C12_Witness ==
    /\ includeAIData
    /\ fileIndex = 2 /\ Len(diffFiles) = 2
    /\ diffFiles[1].file \in {"gone.ts", "big.ts"}
    /\ diffFiles[2].file = "debug.log"
    /\ Len(fileChanges) = 2
    /\ \A i \in 1..2 : ~fileChanges[i].includeInAI /\ fileChanges[i].filePath = diffFiles[i].file


(***************************************************************************)
(* The Ignore-Pattern Matcher as a state machine: one call of              *)
(* isFileIgnored, its arguments drawn at the start.                        *)
(***************************************************************************)
\* patterns of a .clogignore file; the last three do not compile
MatcherPatterns ==
    {"*.log", "node_modules/**", "dist/**", "/build", "build", "(", "src/[", "/**"}

MatcherPaths ==
    {"debug.log", "node_modules/foo/bar.js", "src/node_modules.js", "node_modules",
     "build", "x/build", "dist/app.js", "src/app.ts"}

PatternSets == UNION {[1..n -> MatcherPatterns] : n \in 0..MaxPatterns}

InitMatcher ==
    /\ candidatePath \in MatcherPaths
    /\ patternSet \in PatternSets
    /\ ignoreResult = "none"

\* GitDataExtractor.isFileIgnored(candidatePath, patternSet)
IsFileIgnored ==
    /\ ignoreResult = "none"
    /\ ignoreResult' = IF isFileIgnored(candidatePath, patternSet) THEN "ignored" ELSE "kept"
    /\ UNCHANGED <<candidatePath, patternSet>>
    /\ UNCHANGED <<pipelineVars, serviceVars, assemblerVars, filterVars, pathVars, keyVars,
                   dialogVars, integrationVars, statusVars>>

NextMatcher == IsFileIgnored

InitMatching == InitMatcher /\ PipelineIdle /\ ServiceConstructed /\ AssemblerIdle /\ FilterIdle /\ PathIdle /\ KeyIdle /\ DialogIdle /\ IntegrationIdle /\ StatusIdle

SpecMatcher == InitMatching /\ [][NextMatcher]_vars

(***************************************************************************)
(* Properties of the matcher.                                              *)
(***************************************************************************)
\* the patterns of the set, as a set
PatternsOf(patterns) == {patterns[n] : n \in 1..Len(patterns)}

(* C14: isFileIgnored is true iff at least one pattern of the set matches   *)
(* the path: what it returns depends on the set of patterns only, not on    *)
(* their order; a set that holds a matching pattern ignores the path        *)
(* whatever else it holds; the empty set ignores nothing.                   *)
C14_AnyPatternIgnores ==
    ignoreResult # "none" =>
        /\ ignoreResult \in {"ignored", "kept"}
        /\ ignoreResult = "ignored" <=> \E k \in PatternsOf(patternSet) : matchesPattern(candidatePath, k)
        /\ patternSet = <<>> => ignoreResult = "kept"

\* a path was ignored for the last pattern of a set whose first does not
\* match it
C14_Witness ==
    /\ candidatePath = "debug.log"
    /\ patternSet = <<"dist/**", "*.log">>
    /\ ignoreResult = "ignored"

\* the path is directory dir or lies beneath a directory dir
UnderDirectory(path, dir) ==
    \/ path = dir
    \/ startsWith(path, dir \o "/")
    \/ endsWith(path, "/" \o dir)
    \/ includes(path, "/" \o dir \o "/")

(* C15: a directory pattern 'D/**' matches the directory D and every path   *)
(* beneath it and no path in which D is only the beginning of a longer      *)
(* segment name: 'node_modules/**' ignores 'node_modules/foo/bar.js' and    *)
(* does not ignore 'src/node_modules.js'.                                   *)
C15_DirectoryPattern ==
    \A dir \in {"node_modules", "dist"} :
        (ignoreResult # "none" /\ patternSet = <<dir \o "/**">>) =>
            (ignoreResult = "ignored" <=> UnderDirectory(candidatePath, dir))

C15_Witness ==
    /\ patternSet = <<"node_modules/**">>
    /\ candidatePath = "src/node_modules.js"
    /\ ignoreResult = "kept"

(* C16: a pattern '/P' without wildcards is anchored to the start of the    *)
(* path: it matches the path 'P' and does not match a path 'x/P'.           *)
C16_AnchoredPattern ==
    (ignoreResult # "none" /\ patternSet = <<"/build">>) =>
        /\ candidatePath = "build" => ignoreResult = "ignored"
        /\ candidatePath = "x/build" => ignoreResult = "kept"

\* the patterns of the set for which new RegExp does not throw
WellFormed(patterns) == {k \in PatternsOf(patterns) : RegExpCompiles(patternToRegex(k))}

(* C17: a pattern that cannot be compiled counts as not matching and the    *)
(* other patterns are still evaluated: isFileIgnored returns what it        *)
(* returns for the set without the malformed patterns, and never throws.    *)
C17_FailOpenPerPattern ==
    ignoreResult # "none" =>
        /\ ignoreResult \in {"ignored", "kept"}
        /\ ignoreResult = "ignored" <=>
              \E k \in WellFormed(patternSet) : RegExpTest(patternToRegex(k), candidatePath)

\* a path was ignored for a pattern that follows a malformed one
C17_Witness ==
    /\ candidatePath = "debug.log"
    /\ patternSet = <<"(", "*.log">>
    /\ ignoreResult = "ignored"

(***************************************************************************)
(* Rendering as a state machine: formatChangelogEntry applied to a commit  *)
(* record and a mode drawn at the start; the record, the mode and the      *)
(* rendered entry are those of run 1.  The records have up to MaxFiles + 1 *)
(* files, so that every kind of change can be present at once.             *)
(***************************************************************************)
RenderFiles ==
    {[filePath |-> "login.ts", changeType |-> "added", changeSymbol |-> "+",
      includeInAI |-> TRUE, diffContent |-> Some("+export function login() {}"), fileSize |-> Some(27)],
     [filePath |-> "debug.log", changeType |-> "added", changeSymbol |-> "+",
      includeInAI |-> FALSE, diffContent |-> Undefined, fileSize |-> Undefined],
     [filePath |-> "app.ts", changeType |-> "modified", changeSymbol |-> "*",
      includeInAI |-> TRUE, diffContent |-> Some("-old()\n+login()"), fileSize |-> Some(15)],
     [filePath |-> "logo.png", changeType |-> "modified", changeSymbol |-> "*",
      includeInAI |-> FALSE, diffContent |-> Undefined, fileSize |-> Undefined],
     [filePath |-> "temp.js", changeType |-> "deleted", changeSymbol |-> "-",
      includeInAI |-> FALSE, diffContent |-> Undefined, fileSize |-> Undefined]}

RenderCommits ==
    {[hash |-> GitLog(2).hash, message |-> GitLog(2).message, author |-> GitLog(2).author_name,
      email |-> GitLog(2).author_email, date |-> GitLog(2).date, fileChanges |-> changes] :
        changes \in UNION {[1..n -> RenderFiles] : n \in 0..(MaxFiles + 1)}}

InitRender ==
    /\ head = 2
    /\ pendingStateChange = FALSE
    /\ pendingRepositoryChange = FALSE
    /\ configMode = "base"
    /\ apiKeyValid = TRUE
    /\ autoGenerate = FALSE
    /\ changelog = NoFile
    /\ directoryExists = TRUE
    /\ backup = NoFile
    /\ pc = [p \in Runs |-> "idle"]
    /\ \E m \in {"base", "ai"} : mode = [p \in Runs |-> IF p = 1 THEN m ELSE "base"]
    /\ \E c \in RenderCommits : commitInfo = [p \in Runs |-> IF p = 1 THEN c ELSE NoCommitInfo]
    /\ changelogEntry = [p \in Runs |-> ""]
    /\ readResult = [p \in Runs |-> Undefined]
    /\ success = [p \in Runs |-> "unknown"]
    /\ changelogError = [p \in Runs |-> Undefined]
    /\ changelogAtCall = [p \in Runs |-> NoFile]
    /\ switchToBase = [p \in Runs |-> "none"]

\* ChangelogGenerator.formatChangelogEntry(commitInfo, mode)
FormatChangelogEntry ==
    /\ changelogEntry[1] = ""
    /\ changelogEntry' = [changelogEntry EXCEPT ![1] = formatChangelogEntry(commitInfo[1], mode[1])]
    /\ UNCHANGED <<head, pendingStateChange, pendingRepositoryChange, configMode, apiKeyValid,
                   autoGenerate, changelog, directoryExists, backup, pc, mode, commitInfo,
                   readResult, success, changelogError, changelogAtCall, switchToBase>>
    /\ UNCHANGED <<serviceVars, assemblerVars, matcherVars, filterVars, pathVars, keyVars,
                   dialogVars, integrationVars, statusVars>>

NextRender == FormatChangelogEntry

InitRendering == InitRender /\ ServiceConstructed /\ AssemblerIdle /\ MatcherIdle /\ FilterIdle /\ PathIdle /\ KeyIdle /\ DialogIdle /\ IntegrationIdle /\ StatusIdle

SpecRender == InitRendering /\ [][NextRender]_vars

(***************************************************************************)
(* Properties of rendering.                                                *)
(***************************************************************************)
\* the subsection titles, in the order the template has them
SubsectionKinds == <<"added", "modified", "deleted">>

TitleOf(kind) ==
    IF kind = "added" THEN "**Added:**" ELSE IF kind = "modified" THEN "**Modified:**" ELSE "**Deleted:**"

\* where a line is in a list of lines (0: nowhere)
PositionIn(lines, line) ==
    LET at == {n \in 1..Len(lines) : lines[n] = line}
    IN  IF at = {} THEN 0 ELSE CHOOSE n \in at : \A m \in at : n <= m

\* the files of a kind, as positions in the record's list
OfKind(changes, kind) == {i \in 1..Len(changes) : changes[i].changeType = kind}

\* the j-th file of a kind
NthOfKind(changes, kind, j) ==
    CHOOSE i \in OfKind(changes, kind) : Cardinality({m \in OfKind(changes, kind) : m <= i}) = j

DiffLineKinds ==
    {"diff --git a/app.ts b/app.ts", "--- a/app.ts", "@@ -1,2 +1,2 @@", "+login()", "-old()",
     " import x", "", "\\ No newline at end of file", "new file mode 100644"}

DiffTexts == {join(lines, "\n") : lines \in UNION {[1..n -> DiffLineKinds] : n \in 0..MaxLines}}

InitFilter ==
    /\ diffInput \in DiffTexts
    /\ filterPasses = 0
    /\ filteredDiff = ""

\* GitDataExtractor.filterDiffToChangedLines, on the text and then on its
\* own result
FilterDiff ==
    /\ filterPasses < 2
    /\ filteredDiff' = filterDiffToChangedLines(IF filterPasses = 0 THEN diffInput ELSE filteredDiff)
    /\ filterPasses' = filterPasses + 1
    /\ UNCHANGED diffInput
    /\ UNCHANGED <<pipelineVars, serviceVars, assemblerVars, matcherVars, pathVars, keyVars,
                   dialogVars, integrationVars, statusVars>>

NextFilter == FilterDiff

InitFiltering == InitFilter /\ PipelineIdle /\ ServiceConstructed /\ AssemblerIdle /\ MatcherIdle /\ PathIdle /\ KeyIdle /\ DialogIdle /\ IntegrationIdle /\ StatusIdle

SpecFilter == InitFiltering /\ [][NextFilter]_vars

(***************************************************************************)
(* Properties of the diff filter.                                          *)
(***************************************************************************)
\* line n of a text is kept: a file header, a hunk header, or a '+', '-'
\* or ' ' line with a hunk header somewhere before it
KeepsLine(lines, n) ==
    LET isHeader(l) == \/ startsWith(l, "diff --git") \/ startsWith(l, "index ")
                       \/ startsWith(l, "+++") \/ startsWith(l, "---")
        isHunk(l) == ~isHeader(l) /\ startsWith(l, "@@")
    IN  \/ isHeader(lines[n])
        \/ isHunk(lines[n])
        \/ /\ \E m \in 1..(n - 1) : isHunk(lines[m])
           /\ \E c \in {"+", "-", " "} : startsWith(lines[n], c)

RECURSIVE KeptUpTo(_, _)
KeptUpTo(lines, n) ==
    IF n = 0 THEN <<>>
    ELSE KeptUpTo(lines, n - 1) \o (IF KeepsLine(lines, n) THEN <<lines[n]>> ELSE <<>>)

(* C18: diff filtering is idempotent: the filter keeps the file-header      *)
(* lines, the hunk-header lines, and the '+', '-' and ' ' lines that follow *)
(* a hunk header; applied to its own result it returns that result.         *)
C18_FilterIdempotent ==
    [][ /\ filterPasses = 0 =>
              filteredDiff' = join(KeptUpTo(splitLines(diffInput), Len(splitLines(diffInput))), "\n")
        /\ filterPasses = 1 => filteredDiff' = filteredDiff ]_vars

\* a text that lost a line in the first pass, with a hunk in what was
\* kept, went through the filter twice
C18_Witness ==
    /\ filterPasses = 2
    /\ diffInput = "new file mode 100644\n@@ -1,2 +1,2 @@\n+login()"
    /\ filteredDiff = "@@ -1,2 +1,2 @@\n+login()"

(***************************************************************************)
(* The changelog path: its validation at generation time and the path the  *)
(* entry is then written to.  Paths are POSIX paths.                       *)
(***************************************************************************)
workspaceRoot == "/ws"

\* path.isAbsolute
isAbsolute(path) == startsWith(path, "/")

\* path.split('/')
RECURSIVE SplitPathFrom(_, _)
SplitPathFrom(path, start) ==
    LET i == indexOfFrom(path, "/", start)
    IN  IF i = 0 THEN <<SubSeq(path, start, Len(path))>>
        ELSE <<SubSeq(path, start, i - 1)>> \o SplitPathFrom(path, i + 1)

\* the segments path.normalize keeps of an absolute path: '' and '.' are
\* skipped, '..' removes the segment before it (none at the root)
RECURSIVE NormalizeSegments(_, _)
NormalizeSegments(segments, kept) ==
    IF segments = <<>> THEN kept
    ELSE LET segment == Head(segments)
         IN  IF segment \in {"", "."}
             THEN NormalizeSegments(Tail(segments), kept)
             ELSE IF segment = ".."
             THEN NormalizeSegments(Tail(segments),
                                    IF kept = <<>> THEN kept ELSE SubSeq(kept, 1, Len(kept) - 1))
             ELSE NormalizeSegments(Tail(segments), Append(kept, segment))

\* path.normalize of an absolute path
normalize(path) == "/" \o join(NormalizeSegments(SplitPathFrom(path, 1), <<>>), "/")

\* path.join(root, path) for an absolute root
pathJoin(root, path) == normalize(root \o "/" \o path)

\* writeToChangelog, lines 232-234
resolveFullPath(root, path) == IF isAbsolute(path) THEN path ELSE pathJoin(root, path)

\* the segments a configured path is made of
PathSegments == {"..", "docs", "CHANGELOG.md", "CHANGE<LOG>.md"}

\* the paths a user can put in the settings: empty, blank, relative or
\* absolute, of up to MaxSegments segments
ConfigurablePaths ==
    {"", " "} \cup
    {lead \o join(segments, "/") :
        lead \in {"", "/"},
        segments \in UNION {[1..n -> PathSegments] : n \in 1..MaxSegments}}

InitPath ==
    /\ configuredPath \in ConfigurablePaths
    /\ configuredDirExists \in BOOLEAN
    /\ pathValidation = NotValidated
    /\ fullPath = ""

\* generateChangelogEntry for the configured path: validateOptions, then
\* writeToChangelog resolves the path it writes to
ValidatePath ==
    /\ pathValidation = NotValidated
    /\ pathValidation' = validateChangelogPath(configuredPath, configuredDirExists)
    /\ fullPath' = IF pathValidation'.isValid THEN resolveFullPath(workspaceRoot, configuredPath) ELSE ""
    /\ UNCHANGED <<configuredPath, configuredDirExists>>
    /\ UNCHANGED <<pipelineVars, serviceVars, assemblerVars, matcherVars, filterVars, keyVars,
                   dialogVars, integrationVars, statusVars>>

NextPath == ValidatePath

InitPaths == InitPath /\ PipelineIdle /\ ServiceConstructed /\ AssemblerIdle /\ MatcherIdle /\ FilterIdle /\ KeyIdle /\ DialogIdle /\ IntegrationIdle /\ StatusIdle

SpecPath == InitPaths /\ [][NextPath]_vars

(***************************************************************************)
(* Properties of the changelog path.                                       *)
(***************************************************************************)
\* the path is inside the workspace root
InsideWorkspace(path) == startsWith(path, workspaceRoot \o "/")

(* C23: changelog path validation accepts only paths relative to the       *)
(* workspace root: an empty path, a path with one of < > : " | ? *, an     *)
(* absolute path and a path containing '..' are rejected, and the path an  *)
(* accepted setting is written to is inside the workspace root.            *)
C23_OnlyRelativePathsAccepted ==
    pathValidation.isValid =>
        /\ ~IsBlank(configuredPath)
        /\ \A i \in 1..Len(configuredPath) :
              Ch(configuredPath, i) \notin {"<", ">", ":", "\"", "|", "?", "*"}
        /\ ~startsWith(configuredPath, "/")
        /\ ~includes(configuredPath, "..")
        /\ InsideWorkspace(fullPath)

(***************************************************************************)
(* API key format validation: ValidationUtils.validateOpenAIApiKey and the *)
(* validator of the same name the unit tests define and exercise.          *)
(***************************************************************************)
MIN_KEY_LENGTH == 40

MAX_KEY_LENGTH == 200

TEST_MAX_KEY_LENGTH == 100

Alphanumerics == "ABCDEFGHIJKLMNOPQRSTUVWXYZabcdefghijklmnopqrstuvwxyz0123456789"

\* [A-Za-z0-9\-_]
KeyCharacters == {Ch(Alphanumerics, i) : i \in 1..Len(Alphanumerics)} \cup {"-", "_"}

\* /^sk-[A-Za-z0-9\-_]+$/.test(key)
validKeyPattern(key) ==
    /\ startsWith(key, "sk-")
    /\ Len(key) > 3
    /\ \A i \in 4..Len(key) : Ch(key, i) \in KeyCharacters

\* ValidationUtils.validateOpenAIApiKey
validateOpenAIApiKey(key) ==
    IF IsBlank(key)
    THEN Invalid("API key is empty or undefined")
    ELSE LET trimmedKey == trim(key)
         IN  IF ~startsWith(trimmedKey, "sk-")
             THEN Invalid("OpenAI API key must start with \"sk-\"")
             ELSE IF Len(trimmedKey) < MIN_KEY_LENGTH
             THEN Invalid("OpenAI API key appears to be too short")
             ELSE IF Len(trimmedKey) > MAX_KEY_LENGTH
             THEN Invalid("OpenAI API key appears to be too long")
             ELSE IF ~validKeyPattern(trimmedKey)
             THEN Invalid("OpenAI API key contains invalid characters")
             ELSE Valid

\* validateOpenAIApiKey of the unit tests (extension.test.ts)
testValidateOpenAIApiKey(key) ==
    IF IsBlank(key)
    THEN Invalid("API key cannot be empty")
    ELSE LET trimmedKey == trim(key)
         IN  IF ~startsWith(trimmedKey, "sk-")
             THEN Invalid("API key must start with \"sk-\"")
             ELSE IF Len(trimmedKey) < MIN_KEY_LENGTH
             THEN Invalid("API key appears to be too short")
             ELSE IF Len(trimmedKey) > TEST_MAX_KEY_LENGTH
             THEN Invalid("API key appears to be too long")
             ELSE IF ~validKeyPattern(trimmedKey)
             THEN Invalid("API key contains invalid characters")
             ELSE Valid

\* the lengths tried: around the prefix's and around each limit
KeyLengths ==
    {Len("sk-") + d : d \in 0..KeyMargin} \cup
    {limit + d : limit \in {MIN_KEY_LENGTH, TEST_MAX_KEY_LENGTH, MAX_KEY_LENGTH}, d \in (0 - KeyMargin)..KeyMargin}

\* the keys tried: of each length, with the right and a wrong prefix, ending
\* in a letter, a digit, '-', '_' or a character no key has, bare or with
\* white space around; and the empty and the blank key
ApiKeys ==
    {"", "  "} \cup
    {space \o prefix \o Pad(n - 4) \o last \o space :
        space \in {"", " "},
        prefix \in {"sk-", "ak-"},
        last \in {"a", "7", "-", "_", "@"},
        n \in KeyLengths \ {3}} \cup
    {"sk-", "ak-"}

InitKey ==
    /\ apiKey \in ApiKeys
    /\ keyValidation = NotValidated
    /\ testValidation = NotValidated

\* ValidationUtils.validateOpenAIApiKey(apiKey)
ValidateOpenAIApiKey ==
    /\ keyValidation = NotValidated
    /\ keyValidation' = validateOpenAIApiKey(apiKey)
    /\ UNCHANGED <<apiKey, testValidation>>
    /\ UNCHANGED <<pipelineVars, serviceVars, assemblerVars, matcherVars, filterVars, pathVars,
                   dialogVars, integrationVars, statusVars>>

\* the unit tests' validateOpenAIApiKey(apiKey)
TestValidateOpenAIApiKey ==
    /\ testValidation = NotValidated
    /\ testValidation' = testValidateOpenAIApiKey(apiKey)
    /\ UNCHANGED <<apiKey, keyValidation>>
    /\ UNCHANGED <<pipelineVars, serviceVars, assemblerVars, matcherVars, filterVars, pathVars,
                   dialogVars, integrationVars, statusVars>>

NextKey == ValidateOpenAIApiKey \/ TestValidateOpenAIApiKey

InitKeys == InitKey /\ PipelineIdle /\ ServiceConstructed /\ AssemblerIdle /\ MatcherIdle /\ FilterIdle /\ PathIdle /\ DialogIdle /\ IntegrationIdle /\ StatusIdle

SpecKey == InitKeys /\ [][NextKey]_vars

(***************************************************************************)
(* Properties of the API key validation.                                   *)
(***************************************************************************)
(* C24: validateOpenAIApiKey accepts a key iff, trimmed, it starts with    *)
(* 'sk-', has only letters, digits, '-' and '_' after the prefix and a     *)
(* length within the accepted range; and the validator the unit tests      *)
(* exercise gives the same verdict as ValidationUtils.validateOpenAIApiKey *)
(* on every key.                                                           *)
C24_SameVerdict ==
    /\ keyValidation # NotValidated =>
          (keyValidation.isValid <=>
              /\ startsWith(trim(apiKey), "sk-")
              /\ \A i \in 4..Len(trim(apiKey)) : Ch(trim(apiKey), i) \in KeyCharacters
              /\ Len(trim(apiKey)) \in MIN_KEY_LENGTH..MAX_KEY_LENGTH)
    /\ (keyValidation # NotValidated /\ testValidation # NotValidated) =>
          keyValidation.isValid = testValidation.isValid

(***************************************************************************)
(* The API error dialogs and the commands their actions trigger.  The      *)
(* dialogs are not modal; a command's position is the await it is          *)
(* suspended at.                                                           *)
(***************************************************************************)
\* the API errors a failed call throws
ApiErrors == {o.error : o \in {a \in ApiOutcomes : a.kind = "error"}}

\* toggleChangeloggerMode, line 335
newMode(currentMode) == IF currentMode = "base" THEN "ai" ELSE "base"

\* configManager.isAiModeAvailable: a well-formed key is configured
isAiModeAvailable == apiKeyValid

InitDialog ==
    /\ head = 1
    /\ pendingStateChange = FALSE
    /\ pendingRepositoryChange = FALSE
    /\ configMode \in {"base", "ai"}
    /\ apiKeyValid \in BOOLEAN
    /\ autoGenerate = FALSE
    /\ changelog = NoFile
    /\ directoryExists = TRUE
    /\ backup = NoFile
    /\ pc = [p \in Runs |-> "idle"]
    /\ mode = [p \in Runs |-> "base"]
    /\ commitInfo = [p \in Runs |-> NoCommitInfo]
    /\ changelogEntry = [p \in Runs |-> ""]
    /\ readResult = [p \in Runs |-> Undefined]
    /\ success = [p \in Runs |-> "unknown"]
    /\ changelogError = [p \in Runs |-> Undefined]
    /\ changelogAtCall = [p \in Runs |-> NoFile]
    /\ switchToBase = [p \in Runs |-> "none"]
    /\ initialized = apiKeyValid
    /\ initSuccess = Undefined
    /\ request = NoRequest
    /\ apiOutcome = NoOutcome
    /\ response = NoResponse
    /\ dialog = "none"
    /\ networkRequests = 0
    /\ selection = "none"
    /\ command = "none"

(* A call to the API fails (the connection test of initialize, or the      *)
(* completion of generateChangeSummary, which 'Test AI Integration' runs   *)
(* in either mode) and handleOpenAIError brings up the dialog of its kind. *)
ApiCallFails ==
    /\ dialog = "none"
    /\ apiKeyValid
    /\ \E error \in ApiErrors :
          /\ handleOpenAIError(error) # "none"
          /\ dialog' = handleOpenAIError(error)
    /\ UNCHANGED <<initialized, initSuccess, request, apiOutcome, response, networkRequests>>
    /\ UNCHANGED <<selection, command>>
    /\ UNCHANGED <<pipelineVars, assemblerVars, matcherVars, filterVars, pathVars, keyVars,
                   integrationVars, statusVars>>

(* The user edits the settings (changelogger.mode, the API key) while the  *)
(* dialog is up.                                                           *)
EditSettings ==
    /\ selection = "none"
    /\ \E m \in {"base", "ai"}, keyValid \in BOOLEAN :
          /\ <<m, keyValid>> # <<configMode, apiKeyValid>>
          /\ configMode' = m
          /\ apiKeyValid' = keyValid
    /\ UNCHANGED <<head, pendingStateChange, pendingRepositoryChange, autoGenerate, changelog,
                   directoryExists, backup, pc, mode, commitInfo, changelogEntry, readResult,
                   success, changelogError, changelogAtCall, switchToBase>>
    /\ UNCHANGED <<serviceVars, assemblerVars, matcherVars, filterVars, pathVars, keyVars,
                   dialogVars, integrationVars, statusVars>>

(* The user picks an action of the dialog, or dismisses it; the callback   *)
(* of show*ErrorDialog executes the command the action stands for.         *)
SelectAction ==
    /\ dialog # "none"
    /\ selection = "none"
    /\ \E picked \in {dialogActions(dialog)[i] : i \in 1..Len(dialogActions(dialog))} \cup {"dismissed"} :
          /\ selection' = picked
          /\ command' = IF picked = SWITCH_TO_BASE_MODE THEN "toggleMode"
                         ELSE IF picked = "Update API Key" THEN "setApiKey"
                         ELSE "done"
    /\ UNCHANGED <<pipelineVars, serviceVars, assemblerVars, matcherVars, filterVars, pathVars,
                   keyVars, integrationVars, statusVars>>

(* changelogger.toggleMode: toggleChangeloggerMode up to the warning it    *)
(* shows when AI mode is not available, or to its end.                     *)
ToggleChangeloggerMode ==
    /\ command = "toggleMode"
    /\ IF newMode(configMode) = "ai"
       THEN IF ~isAiModeAvailable
            THEN command' = "warning" /\ UNCHANGED configMode
            ELSE command' = "done" /\ configMode' = "ai"
       ELSE command' = "done" /\ configMode' = "base"
    /\ UNCHANGED <<head, pendingStateChange, pendingRepositoryChange, apiKeyValid, autoGenerate,
                   changelog, directoryExists, backup, pc, mode, commitInfo, changelogEntry,
                   readResult, success, changelogError, changelogAtCall, switchToBase>>
    /\ UNCHANGED selection
    /\ UNCHANGED <<serviceVars, assemblerVars, matcherVars, filterVars, pathVars, keyVars,
                   integrationVars, statusVars>>

\* the user answers the warning: 'Set API Key', or 'Cancel'
AnswerWarning ==
    /\ command = "warning"
    /\ \E setApiKey \in BOOLEAN : command' = IF setApiKey THEN "setApiKey" ELSE "done"
    /\ UNCHANGED selection
    /\ UNCHANGED <<pipelineVars, serviceVars, assemblerVars, matcherVars, filterVars, pathVars,
                   keyVars, integrationVars, statusVars>>

(* changelogger.setApiKey: setOpenAIApiKey.  The user may dismiss the      *)
(* input box; a key the box accepts is stored, the AI service is           *)
(* re-initialized (its connection test passes, or fails and may bring up   *)
(* the dialog of the failure) and the user may accept the switch to AI     *)
(* mode.                                                                   *)
SetOpenAIApiKey ==
    /\ command = "setApiKey"
    /\ command' = "done"
    /\ \/ UNCHANGED <<apiKeyValid, configMode, initialized, initSuccess, dialog>>
       \/ \E switchToAi \in BOOLEAN :
             /\ apiKeyValid' = TRUE
             /\ configMode' = IF switchToAi THEN "ai" ELSE configMode
             /\ \/ /\ initialized' = initialize(FALSE, TRUE, TRUE).initialized
                   /\ initSuccess' = Some(initialize(FALSE, TRUE, TRUE).returned)
                   /\ UNCHANGED dialog
                \/ /\ initialized' = initialize(FALSE, TRUE, FALSE).initialized
                   /\ initSuccess' = Some(initialize(FALSE, TRUE, FALSE).returned)
                   /\ \E error \in ApiErrors :
                         dialog' = IF handleOpenAIError(error) # "none"
                                   THEN handleOpenAIError(error) ELSE dialog
    /\ UNCHANGED <<head, pendingStateChange, pendingRepositoryChange, autoGenerate, changelog,
                   directoryExists, backup, pc, mode, commitInfo, changelogEntry, readResult,
                   success, changelogError, changelogAtCall, switchToBase>>
    /\ UNCHANGED <<request, apiOutcome, response, networkRequests>>
    /\ UNCHANGED selection
    /\ UNCHANGED <<assemblerVars, matcherVars, filterVars, pathVars, keyVars, integrationVars,
                   statusVars>>

NextDialog ==
    \/ ApiCallFails
    \/ EditSettings
    \/ SelectAction
    \/ ToggleChangeloggerMode
    \/ AnswerWarning
    \/ SetOpenAIApiKey

InitDialogs == InitDialog /\ AssemblerIdle /\ MatcherIdle /\ FilterIdle /\ PathIdle /\ KeyIdle /\ IntegrationIdle /\ StatusIdle

SpecDialog == InitDialogs /\ [][NextDialog]_vars

(***************************************************************************)
(* Properties of the error dialogs.                                        *)
(***************************************************************************)
(* C26: whenever the user picks 'Switch to Base Mode' in an API error      *)
(* dialog, the configured mode is 'base' once the command it triggers has  *)
(* completed, whatever the mode was when the dialog appeared.              *)
C26_SwitchLeadsToBase ==
    (selection = SWITCH_TO_BASE_MODE /\ command = "done") => configMode = "base"

(***************************************************************************)
(* AIIntegrationService: initialize, reinitialize, generateCommitSummary   *)
(* and dispose on the singleton.  The async methods are suspended at their *)
(* awaits, where other calls run: at "config" a call awaits                *)
(* configManager.isAiModeAvailable and getApiKey, at "connection" the      *)
(* connection test of OpenAIService.initialize.                            *)
(***************************************************************************)
InitIntegration ==
    /\ head = 1
    /\ pendingStateChange = FALSE
    /\ pendingRepositoryChange = FALSE
    /\ configMode = "ai"
    /\ apiKeyValid \in BOOLEAN
    /\ autoGenerate = FALSE
    /\ changelog = NoFile
    /\ directoryExists = TRUE
    /\ backup = NoFile
    /\ pc = [p \in Runs |-> "idle"]
    /\ mode = [p \in Runs |-> "base"]
    /\ commitInfo = [p \in Runs |-> NoCommitInfo]
    /\ changelogEntry = [p \in Runs |-> ""]
    /\ readResult = [p \in Runs |-> Undefined]
    /\ success = [p \in Runs |-> "unknown"]
    /\ changelogError = [p \in Runs |-> Undefined]
    /\ changelogAtCall = [p \in Runs |-> NoFile]
    /\ switchToBase = [p \in Runs |-> "none"]
    /\ initialized = FALSE
    /\ initSuccess = Undefined
    /\ request = SmallRequest
    /\ apiOutcome \in FewOutcomes
    /\ response = NoResponse
    /\ dialog = "none"
    /\ networkRequests = 0
    /\ isInitialized = FALSE
    /\ aiCall = [c \in Calls |-> NoCall]

\* the call a caller gets: the first one not yet used
IsNextCall(c) == aiCall[c].at = "idle" /\ \A d \in Calls : d < c => aiCall[d].at # "idle"

(* generateCommitSummary from line 157 on: the commit is valid, and        *)
(* openaiService.generateChangeSummary is called for it.                   *)
summarize(client) ==
    LET result == generateChangeSummary(client, request, apiOutcome)
    IN  /\ response' = result.response
        /\ dialog' = IF result.dialog # "none" THEN result.dialog ELSE dialog
        /\ networkRequests' = networkRequests + result.sent

\* initialize() is called and awaits the configuration
AiInitialize(c) ==
    /\ IsNextCall(c)
    /\ aiCall' = [aiCall EXCEPT ![c] = [method |-> "initialize", at |-> "config"]]
    /\ UNCHANGED isInitialized
    /\ UNCHANGED <<pipelineVars, serviceVars, assemblerVars, matcherVars, filterVars, pathVars,
                   keyVars, dialogVars, statusVars>>

\* dispose(): openaiService.dispose(), and isInitialized is reset
AiDispose ==
    /\ initialized \/ isInitialized \/ IsDefined(initSuccess)
    /\ initialized' = FALSE
    /\ initSuccess' = Undefined
    /\ isInitialized' = FALSE
    /\ UNCHANGED <<request, apiOutcome, response, dialog, networkRequests>>
    /\ UNCHANGED aiCall
    /\ UNCHANGED <<pipelineVars, assemblerVars, matcherVars, filterVars, pathVars, keyVars,
                   dialogVars, statusVars>>

\* reinitialize(): dispose(), then initialize() up to its first await
AiReinitialize(c) ==
    /\ IsNextCall(c)
    /\ initialized' = FALSE
    /\ initSuccess' = Undefined
    /\ isInitialized' = FALSE
    /\ aiCall' = [aiCall EXCEPT ![c] = [method |-> "reinitialize", at |-> "config"]]
    /\ UNCHANGED <<request, apiOutcome, response, dialog, networkRequests>>
    /\ UNCHANGED <<pipelineVars, assemblerVars, matcherVars, filterVars, pathVars, keyVars,
                   dialogVars, statusVars>>

(* generateCommitSummary(commitInfo): when isInitialized is false it       *)
(* awaits initialize(); otherwise it goes on to the summary at once.       *)
AiGenerateCommitSummary(c) ==
    /\ IsNextCall(c)
    /\ ~Returned
    /\ IF ~isInitialized
       THEN /\ aiCall' = [aiCall EXCEPT ![c] = [method |-> "generateCommitSummary", at |-> "config"]]
            /\ UNCHANGED <<response, dialog, networkRequests>>
       ELSE /\ aiCall' = [aiCall EXCEPT ![c] = [method |-> "generateCommitSummary", at |-> "returned"]]
            /\ summarize(initialized)
    /\ UNCHANGED <<initialized, initSuccess, request, apiOutcome>>
    /\ UNCHANGED isInitialized
    /\ UNCHANGED <<pipelineVars, assemblerVars, matcherVars, filterVars, pathVars, keyVars,
                   dialogVars, statusVars>>

(* initialize() after the configuration was read: without a usable key it  *)
(* returns a failure; otherwise OpenAIService.initialize sets up the       *)
(* client (lines 105-115) and awaits the connection test.                  *)
AiConfigurationRead(c) ==
    /\ aiCall[c].at = "config"
    /\ IF ~isAiModeAvailable
       THEN /\ aiCall' = [aiCall EXCEPT ![c].at = "returned"]
            /\ UNCHANGED initialized
       ELSE /\ aiCall' = [aiCall EXCEPT ![c].at = "connection"]
            /\ initialized' = TRUE
    /\ UNCHANGED <<initSuccess, request, apiOutcome, response, dialog, networkRequests>>
    /\ UNCHANGED isInitialized
    /\ UNCHANGED <<pipelineVars, assemblerVars, matcherVars, filterVars, pathVars, keyVars,
                   dialogVars, statusVars>>

(* The connection test returns.  Failed, handleOpenAIError brings up its   *)
(* dialog, OpenAIService.initialize clears the client and returns false,   *)
(* and initialize() returns a failure.  Passed, OpenAIService.initialize   *)
(* returns true and initialize() sets isInitialized; a                     *)
(* generateCommitSummary that awaited it goes on to the summary.           *)
AiConnectionTested(c) ==
    /\ aiCall[c].at = "connection"
    /\ aiCall' = [aiCall EXCEPT ![c].at = "returned"]
    /\ \E test \in FewOutcomes :
          IF test.kind = "error"
          THEN /\ initialized' = FALSE
               /\ initSuccess' = Some(FALSE)
               /\ dialog' = IF handleOpenAIError(test.error) # "none"
                            THEN handleOpenAIError(test.error) ELSE dialog
               /\ UNCHANGED <<isInitialized, response, networkRequests>>
          ELSE /\ initSuccess' = Some(TRUE)
               /\ isInitialized' = TRUE
               /\ UNCHANGED initialized
               /\ IF aiCall[c].method = "generateCommitSummary" /\ ~Returned
                  THEN summarize(initialized)
                  ELSE UNCHANGED <<response, dialog, networkRequests>>
    /\ UNCHANGED <<request, apiOutcome>>
    /\ UNCHANGED <<pipelineVars, assemblerVars, matcherVars, filterVars, pathVars, keyVars,
                   dialogVars, statusVars>>

NextIntegration ==
    \/ \E c \in Calls : AiInitialize(c)
    \/ AiDispose
    \/ \E c \in Calls : AiReinitialize(c)
    \/ \E c \in Calls : AiGenerateCommitSummary(c)
    \/ \E c \in Calls : AiConfigurationRead(c)
    \/ \E c \in Calls : AiConnectionTested(c)

InitIntegrations ==
    InitIntegration /\ AssemblerIdle /\ MatcherIdle /\ FilterIdle /\ PathIdle /\ KeyIdle /\ DialogIdle /\ StatusIdle

SpecIntegration == InitIntegrations /\ [][NextIntegration]_vars

(***************************************************************************)
(* Properties of AIIntegrationService.                                     *)
(***************************************************************************)
(* C28: in every reachable state, under any interleaving of initialize,    *)
(* reinitialize, dispose and generateCommitSummary calls, two              *)
(* initializations in flight at once included, isInitialized = true        *)
(* implies that the OpenAIService is initialized, client and config set.   *)
C28_InitializedImpliesClient ==
    isInitialized => initialized

(***************************************************************************)
(* StatusBarService: the temporary messages of the status bar.  A timeout  *)
(* holds the time left until it is due; time passes in steps while         *)
(* timeouts are pending, and a timeout that is due runs before more time   *)
(* passes, the earliest call first.                                        *)
(***************************************************************************)
\* the durations the callers give
GENERATING_DURATION == 2000
RESULT_DURATION == 3000

\* the calls executeChangelogGeneration makes
TemporaryMessages ==
    {[message |-> "Generating changelog...", duration |-> GENERATING_DURATION],
     [message |-> "Changelog generated!", duration |-> RESULT_DURATION],
     [message |-> "Generation failed!", duration |-> RESULT_DURATION]}

\* the item while a message is shown
temporaryItem(message) == [text |-> "$(info) " \o message, tooltip |-> message]

\* StatusBarService.showTemporaryMessage(message, duration)
ShowTemporaryMessage ==
    /\ shown < MaxMessages
    /\ \E m \in TemporaryMessages :
          /\ statusBarItem' = temporaryItem(m.message)
          /\ timeouts' = timeouts \cup {[id |-> shown + 1, left |-> m.duration,
                                         original |-> statusBarItem]}
    /\ shown' = shown + 1
    /\ UNCHANGED <<pipelineVars, serviceVars, assemblerVars, matcherVars, filterVars, pathVars,
                   keyVars, dialogVars, integrationVars>>

\* time passes while no timeout is due
TimePasses ==
    /\ timeouts # {}
    /\ \A t \in timeouts : t.left > 0
    /\ timeouts' = {[t EXCEPT !.left = t.left - Tick] : t \in timeouts}
    /\ UNCHANGED <<statusBarItem, shown>>
    /\ UNCHANGED <<pipelineVars, serviceVars, assemblerVars, matcherVars, filterVars, pathVars,
                   keyVars, dialogVars, integrationVars>>

\* the callback of setTimeout, lines 202-205: the original text and
\* tooltip are put back
Timeout ==
    /\ \E t \in timeouts :
          /\ t.left <= 0
          /\ \A u \in timeouts : u.left <= 0 => t.id <= u.id
          /\ statusBarItem' = t.original
          /\ timeouts' = timeouts \ {t}
    /\ UNCHANGED shown
    /\ UNCHANGED <<pipelineVars, serviceVars, assemblerVars, matcherVars, filterVars, pathVars,
                   keyVars, dialogVars, integrationVars>>

(* The user changes changelogger.mode: the onDidChangeConfiguration        *)
(* listener, lines 66-72, calls updateStatusBar.                           *)
OnDidChangeConfiguration ==
    /\ \E m \in {"base", "ai"} :
          /\ m # configMode
          /\ configMode' = m
          /\ statusBarItem' = updateStatusBar(m)
    /\ UNCHANGED <<head, pendingStateChange, pendingRepositoryChange, apiKeyValid, autoGenerate,
                   changelog, directoryExists, backup, pc, mode, commitInfo, changelogEntry,
                   readResult, success, changelogError, changelogAtCall, switchToBase>>
    /\ UNCHANGED <<timeouts, shown>>
    /\ UNCHANGED <<serviceVars, assemblerVars, matcherVars, filterVars, pathVars, keyVars,
                   dialogVars, integrationVars>>

NextStatus == ShowTemporaryMessage \/ TimePasses \/ Timeout \/ OnDidChangeConfiguration

InitStatus ==
    StatusIdle /\ PipelineIdle /\ ServiceConstructed /\ AssemblerIdle /\ MatcherIdle /\ FilterIdle /\ PathIdle /\ KeyIdle /\ DialogIdle /\ IntegrationIdle

SpecStatus == InitStatus /\ [][NextStatus]_vars

(***************************************************************************)
(* Properties of the status bar.                                           *)
(***************************************************************************)
\* the regular texts of the status bar
ModeItems == {updateStatusBar(m) : m \in {"base", "ai"}}

(* C30: a temporary message is always undone: for any sequence of          *)
(* showTemporaryMessage calls, a call made before the previous message's   *)
(* duration has elapsed included, once every duration has elapsed the      *)
(* status bar shows the regular mode text again and not a temporary        *)
(* message.                                                                *)
C30_TemporaryMessageUndone ==
    (shown > 0 /\ timeouts = {}) => statusBarItem \in ModeItems

====
